---- MODULE Spec2Model ----
(***************************************************************************)
(* Genshin training guide: the goal store (useTrainingGuide.js), its       *)
(* import validator, the level cost tables (levelTables.js), the cost      *)
(* merger and the per-tab cost derivations, as state machines.             *)
(*                                                                         *)
(*   Spec         the store driven by the user interface: roster,          *)
(*                selection, goal edits, export and import                 *)
(*   SpecCost     the cost functions applied to drawn level pairs          *)
(*   SpecMerge    mergeCosts applied to drawn cost-item lists              *)
(*   SpecImport   validateImportData and importData on drawn documents     *)
(*   SpecQuota    the store while localStorage may be full                 *)
(*   SpecTotals   the roster total of the material summary                 *)
(*   SpecSubstats the substat chips on a saved session                     *)
(*   SpecAsync    the import with its asynchronous file read               *)
(*   SpecStartup  module load and mount, step by step                      *)
(***************************************************************************)
EXTENDS Integers, Sequences, FiniteSets, TLC

VARIABLES
    ownedCharacters,    \* state.ownedCharacters: sequence of names
    characterGoals,     \* state.characterGoals: name -> goal record
    selectedCharacter,  \* state.selectedCharacter: name or Null
    ownershipMode,      \* state.ownershipMode
    storage,            \* localStorage[STORAGE_KEY]: the saved text, or NoFile
    quotaExceeded,      \* localStorage is full: setItem throws
    exportedFile,       \* the last file exportData() downloaded, or NoFile
    exportedState,      \* history: the store fields when that file was exported
    lastOp,             \* history: the last handler that ran and its outcome
    steps,              \* history: number of handlers run so far
    call,               \* SpecCost / SpecMerge: the drawn arguments
    ret                 \* SpecCost / SpecMerge: the result of the applied function

vars == <<ownedCharacters, characterGoals, selectedCharacter, ownershipMode,
          storage, quotaExceeded, exportedFile, exportedState, lastOp, steps, call, ret>>

storeVars == <<ownedCharacters, characterGoals, selectedCharacter, ownershipMode,
               storage, quotaExceeded, exportedFile, exportedState, lastOp, steps>>

(***************************************************************************)
(* Bounds of the model.                                                    *)
(***************************************************************************)
\* number of user-interface handlers run in one behaviour of Spec
MaxSteps == 3
\* longest cost-item list drawn for mergeCosts
MaxListLen == 2

\* JavaScript null (selectedCharacter, weapon, mainStat)
Null == "<null>"

Max(a, b) == IF a >= b THEN a ELSE b
Min(a, b) == IF a <= b THEN a ELSE b

(***************************************************************************)
(* levelTables.js: cumulative tables and the level-up cost functions.      *)
(***************************************************************************)
CHARACTER_CUMULATIVE_EXP ==
    (1 :> 0) @@ (20 :> 120175) @@ (40 :> 578325) @@ (50 :> 1121825) @@
    (60 :> 1893275) @@ (70 :> 2929275) @@ (80 :> 4291775) @@ (90 :> 6091675)

WEAPON_5STAR_CUMULATIVE_EXP ==
    (1 :> 0) @@ (20 :> 404000) @@ (40 :> 1589500) @@ (50 :> 2974500) @@
    (60 :> 4936500) @@ (70 :> 7490500) @@ (80 :> 10768500) @@ (90 :> 14941500)

WEAPON_4STAR_CUMULATIVE_EXP ==
    (1 :> 0) @@ (20 :> 218000) @@ (40 :> 831500) @@ (50 :> 1521500) @@
    (60 :> 2510500) @@ (70 :> 3819500) @@ (80 :> 5491500) @@ (90 :> 7658500)

WEAPON_3STAR_CUMULATIVE_EXP ==
    (1 :> 0) @@ (20 :> 98000) @@ (40 :> 361000) @@ (50 :> 643000) @@
    (60 :> 1048000) @@ (70 :> 1574000) @@ (80 :> 2239000) @@ (90 :> 3092000)

ARTIFACT_5STAR_CUMULATIVE_MORA ==
    (0 :> 0) @@ (4 :> 2700) @@ (8 :> 10200) @@ (12 :> 24050) @@
    (16 :> 47950) @@ (20 :> 88800)

ARTIFACT_5STAR_CUMULATIVE_XP ==
    (0 :> 0) @@ (4 :> 16300) @@ (8 :> 66650) @@ (12 :> 189325) @@
    (16 :> 436675) @@ (20 :> 871500)

\* table[level] ?? 0
Lookup(table, level) == IF level \in DOMAIN table THEN table[level] ELSE 0

\* Math.floor(num / den), the wrong rounding
MathFloor(num, den) == num \div den

\* Math.round(num / den), the rounding to the nearest integer
MathRound(num, den) == (2 * num + den) \div (2 * den)

\* Math.ceil(num / den) for num >= 0, den > 0.  The code multiplies by the
\* double 0.2 or 0.005; for every exp that is a difference of table values
\* the double product rounds to the exact quotient when that is an integer
\* and keeps its fraction otherwise, so the ceiling is the integer one.
MathCeil(num, den) == (num + den - 1) \div den

\* EXP of one Hero's Wit
HERO_WIT_EXP == 20000
\* EXP of one Mystic Enhancement Ore
MYSTIC_ORE_EXP == 10000

getCharacterLevelUpCosts(currentLevel, targetLevel) ==
    LET fromExp == Lookup(CHARACTER_CUMULATIVE_EXP, currentLevel)
        toExp   == Lookup(CHARACTER_CUMULATIVE_EXP, targetLevel)
        exp     == Max(0, toExp - fromExp)
    IN  [exp |-> exp,
         mora |-> MathCeil(exp * 2, 10),           \* Math.ceil(exp * 0.2)
         heroWits |-> MathCeil(exp, HERO_WIT_EXP)]

WeaponTable(rarity) ==
    IF rarity = 3 THEN WEAPON_3STAR_CUMULATIVE_EXP
    ELSE IF rarity = 4 THEN WEAPON_4STAR_CUMULATIVE_EXP
    ELSE WEAPON_5STAR_CUMULATIVE_EXP

getWeaponLevelUpCosts(currentLevel, targetLevel, rarity) ==
    LET table   == WeaponTable(rarity)
        fromExp == Lookup(table, currentLevel)
        toExp   == Lookup(table, targetLevel)
        exp     == Max(0, toExp - fromExp)
    IN  [exp |-> exp,
         mora |-> MathCeil(exp * 5, 1000),         \* Math.ceil(exp * 0.005)
         mysticOres |-> MathCeil(exp, MYSTIC_ORE_EXP)]

getArtifactLevelCost(currentLevel, targetLevel) ==
    LET fromMora == Lookup(ARTIFACT_5STAR_CUMULATIVE_MORA, currentLevel)
        toMora   == Lookup(ARTIFACT_5STAR_CUMULATIVE_MORA, targetLevel)
    IN  Max(0, toMora - fromMora)

\* an EXP cost read from the Mora table
getArtifactXpCostFromMoraTable(currentLevel, targetLevel) ==
    LET fromXp == Lookup(ARTIFACT_5STAR_CUMULATIVE_MORA, currentLevel)
        toXp   == Lookup(ARTIFACT_5STAR_CUMULATIVE_MORA, targetLevel)
    IN  Max(0, toXp - fromXp)

getArtifactXpCost(currentLevel, targetLevel) ==
    LET fromXp == Lookup(ARTIFACT_5STAR_CUMULATIVE_XP, currentLevel)
        toXp   == Lookup(ARTIFACT_5STAR_CUMULATIVE_XP, targetLevel)
    IN  Max(0, toXp - fromXp)

(***************************************************************************)
(* genshinData.js: the cost merger and the ascension / talent queries.     *)
(***************************************************************************)
Item(name, count) == [name |-> name, count |-> count]

\* accumulator.find(c => c.name === item.name): index of the first match, 0 if none
FindByName(accumulator, name) ==
    IF \E i \in 1..Len(accumulator) : accumulator[i].name = name
    THEN CHOOSE i \in 1..Len(accumulator) :
            /\ accumulator[i].name = name
            /\ \A j \in 1..(i - 1) : accumulator[j].name # name
    ELSE 0

\* a merger that appends every item without looking for its name
MergeOneNoFind(accumulator, item) == Append(accumulator, Item(item.name, item.count))

\* a merger that overwrites the count of a name it finds instead of adding to it
MergeOneOverwrite(accumulator, item) ==
    LET existing == FindByName(accumulator, item.name)
    IN  IF existing # 0
        THEN [accumulator EXCEPT ![existing].count = item.count]
        ELSE Append(accumulator, Item(item.name, item.count))

\* one iteration of the loop of mergeCosts
MergeOne(accumulator, item) ==
    LET existing == FindByName(accumulator, item.name)
    IN  IF existing # 0
        THEN [accumulator EXCEPT ![existing].count = @ + item.count]
        ELSE Append(accumulator, Item(item.name, item.count))

\* the loop of mergeCosts (merged is the accumulator after the first item)
RECURSIVE mergeCosts(_, _)
mergeCosts(accumulator, items) ==
    IF items = <<>> THEN accumulator
    ELSE CHOOSE result \in {mergeCosts(merged, Tail(items)) :
                                merged \in {MergeOne(accumulator, Head(items))}} : TRUE

LEVEL_TO_PHASE ==
    (1 :> 0) @@ (20 :> 0) @@ (40 :> 1) @@ (50 :> 2) @@
    (60 :> 3) @@ (70 :> 4) @@ (80 :> 5) @@ (90 :> 6)

\* genshin-db, the external game data: a sample with two characters and
\* four weapons.  costs[p] is costs.ascend<p>, talent costs[l] is costs.lvl<l>.
KnownNames == {"Amber", "Bennett"}

genshindb_characters ==
    ("Amber" :>
        [weaponType |-> "WEAPON_BOW",
         costs |-> [p \in 1..6 |->
            <<Item("Mora", 20000 * p), Item("Agnidus Agate", p),
              Item("Small Lamp Grass", 3 * p)>>]]) @@
    ("Bennett" :>
        [weaponType |-> "WEAPON_SWORD_ONE_HAND",
         costs |-> [p \in 1..6 |->
            <<Item("Mora", 20000 * p), Item("Agnidus Agate", p),
              Item("Windwheel Aster", 3 * p)>>]])

genshindb_weapons ==
    ("Hunter's Bow" :>
        [weaponType |-> "WEAPON_BOW", rarity |-> 1,
         costs |-> [p \in 1..4 |->
            <<Item("Mora", 0), Item("Dandelion Tile", p)>>]]) @@
    ("Slingshot" :>
        [weaponType |-> "WEAPON_BOW", rarity |-> 3,
         costs |-> [p \in 1..6 |->
            <<Item("Mora", 5000 * p), Item("Dandelion Tile", p)>>]]) @@
    ("Rust" :>
        [weaponType |-> "WEAPON_BOW", rarity |-> 4,
         costs |-> [p \in 1..6 |->
            <<Item("Mora", 5000 * p), Item("Dandelion Tile", 3 * p)>>]]) @@
    ("Aquila Favonia" :>
        [weaponType |-> "WEAPON_SWORD_ONE_HAND", rarity |-> 5,
         costs |-> [p \in 1..6 |->
            <<Item("Mora", 10000 * p), Item("Decarabian Tile", 5 * p)>>]])

genshindb_talents ==
    ("Amber" :>
        [costs |-> [l \in 2..10 |->
            <<Item("Mora", 12500 * (l - 1)), Item("Teachings of Freedom", l)>>]]) @@
    ("Bennett" :>
        [costs |-> [l \in 2..10 |->
            <<Item("Mora", 12500 * (l - 1)), Item("Teachings of Resistance", l)>>]])

getAllCharacterNames == KnownNames

\* the loop "for (i = from; i <= to; i++) { items = table[i]; if (items) mergeCosts(costs, items) }":
\* the entries of table with a key in from..to, merged in increasing key order
\* (an index without an entry is skipped)
RECURSIVE MergeRange(_, _, _, _)
MergeRange(table, from, to, costs) ==
    LET keys == {k \in DOMAIN table : from <= k /\ k <= to}
    IN  IF keys = {} THEN costs
        ELSE LET first == CHOOSE k \in keys : \A j \in keys : k <= j
             IN  CHOOSE result \in {MergeRange(table, first + 1, to, merged) :
                                        merged \in {mergeCosts(costs, table[first])}} : TRUE

\* ascension costs that start at the phase of the current level
getCharacterAscensionCostsFromCurrentPhase(charName, currentLevel, targetLevel) ==
    IF charName \notin DOMAIN genshindb_characters THEN <<>>
    ELSE LET fromPhase == Lookup(LEVEL_TO_PHASE, currentLevel)
             toPhase   == Lookup(LEVEL_TO_PHASE, targetLevel)
         IN  IF fromPhase > toPhase THEN <<>>
             ELSE MergeRange(genshindb_characters[charName].costs, fromPhase, toPhase, <<>>)

getCharacterAscensionCosts(charName, currentLevel, targetLevel) ==
    IF charName \notin DOMAIN genshindb_characters THEN <<>>
    ELSE LET fromPhase == Lookup(LEVEL_TO_PHASE, currentLevel) + 1
             toPhase   == Lookup(LEVEL_TO_PHASE, targetLevel)
         IN  IF fromPhase > toPhase THEN <<>>
             ELSE MergeRange(genshindb_characters[charName].costs, fromPhase, toPhase, <<>>)

getWeaponAscensionCosts(weaponName, currentLevel, targetLevel) ==
    IF weaponName \notin DOMAIN genshindb_weapons THEN <<>>
    ELSE LET fromPhase == Lookup(LEVEL_TO_PHASE, currentLevel) + 1
             toPhase   == Lookup(LEVEL_TO_PHASE, targetLevel)
         IN  IF fromPhase > toPhase THEN <<>>
             ELSE MergeRange(genshindb_weapons[weaponName].costs, fromPhase, toPhase, <<>>)

getTalentCosts(charName, currentLevel, targetLevel) ==
    IF charName \notin DOMAIN genshindb_talents THEN <<>>
    ELSE MergeRange(genshindb_talents[charName].costs, currentLevel + 1, targetLevel, <<>>)

(***************************************************************************)
(* useTrainingGuide.js: the default goal.                                  *)
(***************************************************************************)
Artifact(slot, mainStat) ==
    [slot |-> slot, currentLevel |-> 0, targetLevel |-> 20, mainStat |-> mainStat,
     desiredSubstats |-> <<>>, targetSubstatCount |-> 0]

createDefaultGoal ==
    [currentLevel |-> 1, targetLevel |-> 90,
     weapon |-> Null, weaponCurrentLevel |-> 1, weaponTargetLevel |-> 90,
     artifacts |-> <<Artifact("Flower", "HP"), Artifact("Plume", "ATK"),
                     Artifact("Sands", Null), Artifact("Goblet", Null),
                     Artifact("Circlet", Null)>>,
     talents |-> [normalAttack |-> [currentLevel |-> 1, targetLevel |-> 9],
                  skill        |-> [currentLevel |-> 1, targetLevel |-> 9],
                  burst        |-> [currentLevel |-> 1, targetLevel |-> 9]]]

(***************************************************************************)
(* The tabs' cost derivations (computed values of the components).         *)
(***************************************************************************)
RECURSIVE SumMora(_)
SumMora(items) ==
    IF items = <<>> THEN 0
    ELSE (IF Head(items).name = "Mora" THEN Head(items).count ELSE 0) + SumMora(Tail(items))

NotMora(item) == item.name # "Mora"

\* a merged list that keeps the ascension Mora as an entry of its own
MergedMaterialsKeepingMora(totalMora, expItemName, expItems, ascensionCosts) ==
    (IF totalMora > 0
        THEN <<[name |-> "Mora", count |-> totalMora, isMora |-> TRUE]>> ELSE <<>>)
    \o (IF expItems > 0
        THEN <<[name |-> expItemName, count |-> expItems, isMora |-> FALSE]>> ELSE <<>>)
    \o ascensionCosts

\* the merged list: Mora first, then the EXP item, then the ascension materials
MergedMaterials(totalMora, expItemName, expItems, ascensionCosts) ==
    (IF totalMora > 0
        THEN <<[name |-> "Mora", count |-> totalMora, isMora |-> TRUE]>> ELSE <<>>)
    \o (IF expItems > 0
        THEN <<[name |-> expItemName, count |-> expItems, isMora |-> FALSE]>> ELSE <<>>)
    \o SelectSeq(ascensionCosts, NotMora)

\* CharacterLevelTab.vue requiredMaterials, for currentGoal = goal
characterRequiredMaterials(charName, goal) ==
    IF goal.currentLevel >= goal.targetLevel THEN <<>>
    ELSE LET ascensionCosts ==
                getCharacterAscensionCosts(charName, goal.currentLevel, goal.targetLevel)
             lvl == getCharacterLevelUpCosts(goal.currentLevel, goal.targetLevel)
         IN  MergedMaterials(lvl.mora + SumMora(ascensionCosts), "Hero's Wit",
                             lvl.heroWits, ascensionCosts)

\* WeaponTab.vue weaponRarity: genshindb.weapons(name)?.rarity ?? 5
weaponRarity(weapon) ==
    IF weapon = Null THEN 5
    ELSE IF weapon \in DOMAIN genshindb_weapons THEN genshindb_weapons[weapon].rarity
    ELSE 5

\* WeaponTab.vue requiredMaterials
weaponRequiredMaterials(goal) ==
    IF goal.weapon = Null THEN <<>>
    ELSE IF goal.weaponCurrentLevel >= goal.weaponTargetLevel THEN <<>>
    ELSE LET ascensionCosts ==
                getWeaponAscensionCosts(goal.weapon, goal.weaponCurrentLevel,
                                        goal.weaponTargetLevel)
             lvl == getWeaponLevelUpCosts(goal.weaponCurrentLevel, goal.weaponTargetLevel,
                                          weaponRarity(goal.weapon))
         IN  MergedMaterials(lvl.mora + SumMora(ascensionCosts), "Mystic Enhancement Ore",
                             lvl.mysticOres, ascensionCosts)

ARTIFACT_LEVEL_OPTIONS == <<0, 4, 8, 12, 16, 20>>

\* ArtifactsTab.vue snapToMilestone: the largest milestone <= lvl, else 0
snapToMilestone(lvl) ==
    IF \E i \in 1..Len(ARTIFACT_LEVEL_OPTIONS) : ARTIFACT_LEVEL_OPTIONS[i] <= lvl
    THEN LET i == CHOOSE k \in 1..Len(ARTIFACT_LEVEL_OPTIONS) :
                    /\ ARTIFACT_LEVEL_OPTIONS[k] <= lvl
                    /\ \A j \in (k + 1)..Len(ARTIFACT_LEVEL_OPTIONS) :
                            ~(ARTIFACT_LEVEL_OPTIONS[j] <= lvl)
         IN  ARTIFACT_LEVEL_OPTIONS[i]
    ELSE 0

slotMora(artifact) ==
    LET current == snapToMilestone(artifact.currentLevel)
        target  == artifact.targetLevel
    IN  IF current >= target THEN 0 ELSE getArtifactLevelCost(current, target)

slotXp(artifact) ==
    LET current == snapToMilestone(artifact.currentLevel)
        target  == artifact.targetLevel
    IN  IF current >= target THEN 0 ELSE getArtifactXpCost(current, target)

\* TalentsTab.vue getTalentMaterials
getTalentMaterials(charName, goal, talentKey) ==
    LET t == goal.talents[talentKey]
    IN  IF t.currentLevel >= t.targetLevel THEN <<>>
        ELSE getTalentCosts(charName, t.currentLevel, t.targetLevel)

(***************************************************************************)
(* Values shared by the specifications.                                    *)
(***************************************************************************)
EmptyMap == [k \in {} |-> k]
NoFile   == [type |-> "nofile"]
NoCall   == [fn |-> "none"]
NoRet    == [fn |-> "none"]

(***************************************************************************)
(* JSON texts.  A text is identified with the value JSON.parse gives for   *)
(* it; BadText is a text JSON.parse throws on.  The store holds plain      *)
(* values: Serialize encodes them, FromJson is what the parsed value is    *)
(* once assigned into the store.                                           *)
(***************************************************************************)
Undefined == [type |-> "undefined"]
BadText   == [type |-> "unparseable"]
JNull     == [type |-> "null"]
JBool(b)  == [type |-> "boolean", bool |-> b]
JNum(n)   == [type |-> "number", num |-> n]
JStr(str) == [type |-> "string", str |-> str]
JArr(items)  == [type |-> "array", items |-> items]
JObj(fields) == [type |-> "object", fields |-> fields]

\* value.key: undefined unless value is an object that has the key
Get(value, key) ==
    IF value.type = "object" /\ key \in DOMAIN value.fields
    THEN value.fields[key] ELSE Undefined

\* Array.isArray(value)
IsArray(value) == value.type = "array"

\* typeof value === 'object'
TypeofObject(value) == value.type \in {"object", "array", "null"}

\* the truthiness of a value
Truthy(value) ==
    CASE value.type \in {"undefined", "null"} -> FALSE
      [] value.type = "boolean" -> value.bool
      [] value.type = "number" -> value.num # 0
      [] value.type = "string" -> value.str # ""
      [] OTHER -> TRUE

\* value < n and value > n after ToNumber: null is 0, a boolean 0 or 1, an
\* empty string 0; undefined, the other strings and objects are NaN, for
\* which every comparison is false
LessThan(value, n) ==
    CASE value.type = "number" -> value.num < n
      [] value.type = "null" -> 0 < n
      [] value.type = "boolean" -> (IF value.bool THEN 1 ELSE 0) < n
      [] value.type = "string" -> value.str = "" /\ 0 < n
      [] OTHER -> FALSE

GreaterThan(value, n) ==
    CASE value.type = "number" -> value.num > n
      [] value.type = "null" -> 0 > n
      [] value.type = "boolean" -> (IF value.bool THEN 1 ELSE 0) > n
      [] value.type = "string" -> value.str = "" /\ 0 > n
      [] OTHER -> FALSE

\* the store value a parsed JSON value is
RECURSIVE FromJson(_)
FromJson(value) ==
    CASE value.type = "null" -> Null
      [] value.type = "boolean" -> value.bool
      [] value.type = "number" -> value.num
      [] value.type = "string" -> value.str
      [] value.type = "array" ->
            [i \in 1..Len(value.items) |-> FromJson(value.items[i])]
      [] value.type = "object" ->
            [k \in DOMAIN value.fields |-> FromJson(value.fields[k])]

\* JSON.stringify of the fields of a goal record
NullOrString(v) == IF v = Null THEN JNull ELSE JStr(v)

ArtifactToJson(a) ==
    JObj([slot |-> JStr(a.slot),
          currentLevel |-> JNum(a.currentLevel),
          targetLevel |-> JNum(a.targetLevel),
          mainStat |-> NullOrString(a.mainStat),
          desiredSubstats |->
              JArr([i \in 1..Len(a.desiredSubstats) |-> JStr(a.desiredSubstats[i])]),
          targetSubstatCount |-> JNum(a.targetSubstatCount)])

\* a talent entry holds numbers under the keys it has
TalentToJson(t) == JObj([k \in DOMAIN t |-> JNum(t[k])])

GoalToJson(goal) ==
    JObj([currentLevel |-> JNum(goal.currentLevel),
          targetLevel |-> JNum(goal.targetLevel),
          weapon |-> NullOrString(goal.weapon),
          weaponCurrentLevel |-> JNum(goal.weaponCurrentLevel),
          weaponTargetLevel |-> JNum(goal.weaponTargetLevel),
          artifacts |->
              JArr([i \in 1..Len(goal.artifacts) |-> ArtifactToJson(goal.artifacts[i])]),
          talents |->
              JObj([k \in DOMAIN goal.talents |-> TalentToJson(goal.talents[k])])])

\* JSON.stringify(state)
Serialize(owned, goals, selected, mode) ==
    JObj([ownedCharacters |-> JArr([i \in 1..Len(owned) |-> JStr(owned[i])]),
          characterGoals |-> JObj([n \in DOMAIN goals |-> GoalToJson(goals[n])]),
          selectedCharacter |-> NullOrString(selected),
          ownershipMode |-> JBool(mode)])

(***************************************************************************)
(* useTrainingGuide.js: import validation.                                 *)
(***************************************************************************)
VALID_CHARACTER_LEVELS == {20, 40, 50, 60, 70, 80, 90}
VALID_CHAR_NAMES == getAllCharacterNames
VALID_SLOTS == <<"Flower", "Plume", "Sands", "Goblet", "Circlet">>
VALID_TALENT_KEYS == <<"normalAttack", "skill", "burst">>
TalentKeys == {"normalAttack", "skill", "burst"}

Error(code, who, at) == [code |-> code, who |-> who, at |-> at]

\* the loop over data.ownedCharacters
RECURSIVE ownedCharactersErrors(_)
ownedCharactersErrors(items) ==
    IF items = <<>> THEN <<>>
    ELSE LET name == Head(items)
         IN  (IF name.type # "string"
                THEN <<Error("ownedCharacters contains non-string value", "", "")>>
              ELSE IF name.str \notin VALID_CHAR_NAMES
                THEN <<Error("Unknown character in ownedCharacters", name.str, "")>>
              ELSE <<>>)
             \o ownedCharactersErrors(Tail(items))

\* !VALID_CHARACTER_LEVELS.includes(level) && level !== 1
InvalidLevel(level) ==
    ~(level.type = "number" /\ (level.num \in VALID_CHARACTER_LEVELS \/ level.num = 1))

\* the loop over the five artifact slots, from index i (1-based)
RECURSIVE artifactSlotErrors(_, _, _)
artifactSlotErrors(charName, items, i) ==
    IF i > 5 THEN <<>>
    ELSE (IF ~Truthy(items[i]) \/ Get(items[i], "slot") # JStr(VALID_SLOTS[i])
            THEN <<Error("artifact has wrong slot", charName, VALID_SLOTS[i])>>
            ELSE <<>>)
         \o artifactSlotErrors(charName, items, i + 1)

artifactsErrors(charName, goal) ==
    LET artifacts == Get(goal, "artifacts")
    IN  IF artifacts = Undefined THEN <<>>
        ELSE IF ~IsArray(artifacts) \/ Len(artifacts.items) # 5
            THEN <<Error("artifacts must be an array of 5", charName, "")>>
        ELSE artifactSlotErrors(charName, artifacts.items, 1)

\* the loop over VALID_TALENT_KEYS, from index i
RECURSIVE talentKeyErrors(_, _, _)
talentKeyErrors(charName, talents, i) ==
    IF i > Len(VALID_TALENT_KEYS) THEN <<>>
    ELSE LET t == Get(talents, VALID_TALENT_KEYS[i])
         IN  (IF Truthy(t) /\ (\/ LessThan(Get(t, "currentLevel"), 1)
                               \/ GreaterThan(Get(t, "currentLevel"), 10)
                               \/ LessThan(Get(t, "targetLevel"), 1)
                               \/ GreaterThan(Get(t, "targetLevel"), 10))
                THEN <<Error("talent has out-of-range levels", charName,
                             VALID_TALENT_KEYS[i])>>
                ELSE <<>>)
             \o talentKeyErrors(charName, talents, i + 1)

talentsErrors(charName, goal) ==
    LET talents == Get(goal, "talents")
    IN  IF talents = Undefined THEN <<>>
        ELSE IF ~TypeofObject(talents) \/ talents = JNull
            THEN <<Error("talents must be an object", charName, "")>>
        ELSE talentKeyErrors(charName, talents, 1)

\* the body of the loop over Object.entries(data.characterGoals)
goalErrors(charName, goal) ==
    IF charName \notin VALID_CHAR_NAMES
        THEN <<Error("Unknown character in goals", charName, "")>>
    ELSE IF ~TypeofObject(goal) \/ goal = JNull
        THEN <<Error("Goal is not an object", charName, "")>>
    ELSE (IF InvalidLevel(Get(goal, "currentLevel"))
            THEN <<Error("invalid currentLevel", charName, "")>> ELSE <<>>)
         \o (IF InvalidLevel(Get(goal, "targetLevel"))
            THEN <<Error("invalid targetLevel", charName, "")>> ELSE <<>>)
         \o artifactsErrors(charName, goal)
         \o talentsErrors(charName, goal)

\* the loop over Object.entries(data.characterGoals); the order of the keys
\* of an object is not modelled, the entries are visited in a fixed order
RECURSIVE characterGoalsErrors(_, _)
characterGoalsErrors(fields, names) ==
    IF names = {} THEN <<>>
    ELSE LET charName == CHOOSE n \in names : TRUE
         IN  goalErrors(charName, fields[charName])
             \o characterGoalsErrors(fields, names \ {charName})

validateImportData(data) ==
    IF ~TypeofObject(data) \/ data = JNull \/ IsArray(data)
        THEN <<Error("Import data must be a JSON object", "", "")>>
    ELSE
        LET owned    == Get(data, "ownedCharacters")
            selected == Get(data, "selectedCharacter")
            goals    == Get(data, "characterGoals")
        IN  (IF owned = Undefined THEN <<>>
             ELSE IF ~IsArray(owned)
                THEN <<Error("ownedCharacters must be an array", "", "")>>
             ELSE ownedCharactersErrors(owned.items))
            \o (IF selected # Undefined /\ selected # JNull
                   /\ (selected.type # "string" \/ selected.str \notin VALID_CHAR_NAMES)
                THEN <<Error("Invalid selectedCharacter", "", "")>> ELSE <<>>)
            \o (IF goals = Undefined THEN <<>>
                ELSE IF ~TypeofObject(goals) \/ goals = JNull \/ IsArray(goals)
                    THEN <<Error("characterGoals must be an object", "", "")>>
                ELSE characterGoalsErrors(goals.fields, DOMAIN goals.fields))

\* `${value}` throws a TypeError: the string conversion of an object calls its
\* toString, then its valueOf, when they are functions.  An object parsed from
\* JSON that has a key "toString" hides Object.prototype.toString behind a
\* value that is no function, and valueOf (its own key, or the inherited one,
\* which returns the object) gives no primitive.  An array joins the
\* conversions of its items, null converting to "".
RECURSIVE ToStringThrows(_)
ToStringThrows(value) ==
    CASE value.type = "object" -> "toString" \in DOMAIN value.fields
      [] value.type = "array" ->
            \E i \in 1..Len(value.items) : ToStringThrows(value.items[i])
      [] OTHER -> FALSE

\* validateImportData(data) throws while it formats a message: the messages
\* of an invalid selectedCharacter, currentLevel and targetLevel interpolate
\* the value itself
validateImportDataThrows(data) ==
    /\ data.type = "object"
    /\ LET selected == Get(data, "selectedCharacter")
           goals    == Get(data, "characterGoals")
       IN  \/ /\ selected # Undefined /\ selected # JNull
              /\ selected.type # "string"
              /\ ToStringThrows(selected)
           \/ /\ goals.type = "object"
              /\ \E charName \in DOMAIN goals.fields \cap VALID_CHAR_NAMES :
                    LET goal == goals.fields[charName]
                    IN  /\ TypeofObject(goal) /\ goal # JNull
                        /\ \E key \in {"currentLevel", "targetLevel"} :
                              /\ InvalidLevel(Get(goal, key))
                              /\ ToStringThrows(Get(goal, key))

(***************************************************************************)
(* useTrainingGuide.js: load, import, and the store's actions as functions *)
(* of the store fields.                                                    *)
(***************************************************************************)
Store(owned, goals, selected) ==
    [ownedCharacters |-> owned, characterGoals |-> goals, selectedCharacter |-> selected]

\* an import whose first assignment is all that has run
ApplyImportRosterOnly(parsed, owned, goals, selected) ==
    Store(IF IsArray(Get(parsed, "ownedCharacters"))
            THEN FromJson(Get(parsed, "ownedCharacters")) ELSE owned,
          goals, selected)

\* the three assignments at the end of importData
ApplyImport(parsed, owned, goals, selected) ==
    Store(IF IsArray(Get(parsed, "ownedCharacters"))
            THEN FromJson(Get(parsed, "ownedCharacters")) ELSE owned,
          IF Truthy(Get(parsed, "characterGoals"))
            THEN FromJson(Get(parsed, "characterGoals")) ELSE goals,
          IF Get(parsed, "selectedCharacter") # Undefined
            THEN FromJson(Get(parsed, "selectedCharacter")) ELSE selected)

\* an import that assigns the fields first and validates afterwards
importDataApplyFirst(jsonString, owned, goals, selected) ==
    IF jsonString = BadText
    THEN [accepted |-> FALSE, store |-> Store(owned, goals, selected)]
    ELSE IF jsonString.type # "object"
    THEN [accepted |-> FALSE, store |-> Store(owned, goals, selected)]
    ELSE [accepted |-> validateImportData(jsonString) = <<>>,
          store |-> ApplyImport(jsonString, owned, goals, selected)]

\* importData(jsonString) on a store with the given fields: whether the
\* import was applied, and the fields afterwards
importData(jsonString, owned, goals, selected) ==
    IF jsonString = BadText \/ validateImportDataThrows(jsonString)
    THEN [accepted |-> FALSE, store |-> Store(owned, goals, selected)]
    ELSE IF Len(validateImportData(jsonString)) > 0
    THEN [accepted |-> FALSE, store |-> Store(owned, goals, selected)]
    ELSE [accepted |-> TRUE, store |-> ApplyImport(jsonString, owned, goals, selected)]

\* loadFromStorage() into the freshly constructed state
loadFromStorage(raw) ==
    IF raw = NoFile \/ raw = BadText THEN Store(<<>>, EmptyMap, Null)
    ELSE Store(IF IsArray(Get(raw, "ownedCharacters"))
                 THEN FromJson(Get(raw, "ownedCharacters")) ELSE <<>>,
               IF Truthy(Get(raw, "characterGoals"))
                 THEN FromJson(Get(raw, "characterGoals")) ELSE EmptyMap,
               IF Truthy(Get(raw, "selectedCharacter"))
                 THEN FromJson(Get(raw, "selectedCharacter")) ELSE Null)

\* ensureGoal(charName)
ensureGoal(goals, charName) ==
    IF charName \in DOMAIN goals THEN goals
    ELSE goals @@ (charName :> createDefaultGoal)

\* ownedCharacters.indexOf(name), 1-based, 0 for -1
IndexOf(seq, x) ==
    IF \E i \in 1..Len(seq) : seq[i] = x
    THEN CHOOSE i \in 1..Len(seq) : seq[i] = x /\ \A j \in 1..(i - 1) : seq[j] # x
    ELSE 0

\* seq.splice(idx, 1)
Splice(seq, idx) == SubSeq(seq, 1, idx - 1) \o SubSeq(seq, idx + 1, Len(seq))

toggleOwnership(owned, name) ==
    LET idx == IndexOf(owned, name)
    IN  IF idx = 0 THEN Append(owned, name) ELSE Splice(owned, idx)

\* CharacterGrid.vue: the watcher of ownedCharacters.length
OwnedLengthWatcher(mode, owned, ownedAfter) ==
    IF Len(ownedAfter) # Len(owned) /\ Len(ownedAfter) = 0 THEN TRUE ELSE mode

\* CharacterGrid.vue displayedCharacters (no search query)
displayedCharacters ==
    IF ownershipMode THEN getAllCharacterNames
    ELSE {name \in getAllCharacterNames :
            \E i \in 1..Len(ownedCharacters) : ownedCharacters[i] = name}

\* currentGoal is set
HasCurrentGoal ==
    selectedCharacter # Null /\ selectedCharacter \in DOMAIN characterGoals

currentGoal == characterGoals[selectedCharacter]

(***************************************************************************)
(* The idle store of the function specifications.                          *)
(***************************************************************************)
\* the store as constructed with nothing persisted, before any handler
StoreIdle ==
    /\ ownedCharacters = <<>>
    /\ characterGoals = EmptyMap
    /\ selectedCharacter = Null
    /\ ownershipMode = FALSE
    /\ storage = NoFile
    /\ quotaExceeded = FALSE
    /\ exportedFile = NoFile
    /\ exportedState = NoFile
    /\ lastOp = [op |-> "init"]
    /\ steps = 0

(***************************************************************************)
(* SpecCost: the cost functions applied to drawn arguments.                *)
(***************************************************************************)
\* milestones of the three tables, talent levels, and off-milestone levels
CostLevels == {0, 1, 4, 7, 8, 10, 12, 16, 20, 37, 40, 50, 60, 70, 80, 90, 95}

\* a goal whose every dimension runs from current to target
GoalWith(current, target, weapon) ==
    [createDefaultGoal EXCEPT
        !.currentLevel = current, !.targetLevel = target,
        !.weapon = weapon,
        !.weaponCurrentLevel = current, !.weaponTargetLevel = target,
        !.artifacts = [i \in 1..5 |->
            [@[i] EXCEPT !.currentLevel = current, !.targetLevel = target]],
        !.talents = [k \in TalentKeys |->
            [currentLevel |-> current, targetLevel |-> target]]]

CallGoal == GoalWith(call.current, call.target, call.weapon)

Ret(fn, exp, mora, count, list) ==
    [fn |-> fn, exp |-> exp, mora |-> mora, count |-> count, list |-> list]

InitCost ==
    /\ StoreIdle
    /\ call \in [fn : {"cost"}, current : CostLevels, target : CostLevels,
                 weapon : DOMAIN genshindb_weapons \cup {Null},
                 charName : KnownNames \cup {"Paimon"}]
    /\ ret = NoRet

\* a drawn call whose function has not been applied yet
Pending(fn) == call.fn = fn /\ ret = NoRet

CallCharacterLevelUp ==
    /\ Pending("cost")
    /\ ret' = LET r == getCharacterLevelUpCosts(call.current, call.target)
               IN  Ret("getCharacterLevelUpCosts", r.exp, r.mora, r.heroWits, <<>>)
    /\ UNCHANGED <<call, storeVars>>

CallWeaponLevelUp ==
    /\ Pending("cost")
    /\ ret' = LET r == getWeaponLevelUpCosts(call.current, call.target,
                                             weaponRarity(call.weapon))
               IN  Ret("getWeaponLevelUpCosts", r.exp, r.mora, r.mysticOres, <<>>)
    /\ UNCHANGED <<call, storeVars>>

CallArtifactLevelCost ==
    /\ Pending("cost")
    /\ ret' = Ret("getArtifactLevelCost", 0,
                  getArtifactLevelCost(call.current, call.target), 0, <<>>)
    /\ UNCHANGED <<call, storeVars>>

CallArtifactXpCost ==
    /\ Pending("cost")
    /\ ret' = Ret("getArtifactXpCost", getArtifactXpCost(call.current, call.target),
                  0, 0, <<>>)
    /\ UNCHANGED <<call, storeVars>>

CallCharacterAscension ==
    /\ Pending("cost")
    /\ ret' = Ret("getCharacterAscensionCosts", 0, 0, 0,
                  getCharacterAscensionCosts(call.charName, call.current, call.target))
    /\ UNCHANGED <<call, storeVars>>

CallWeaponAscension ==
    /\ Pending("cost")
    /\ ret' = Ret("getWeaponAscensionCosts", 0, 0, 0,
                  getWeaponAscensionCosts(call.weapon, call.current, call.target))
    /\ UNCHANGED <<call, storeVars>>

CallCharacterMaterials ==
    /\ Pending("cost")
    /\ ret' = Ret("characterRequiredMaterials", 0, 0, 0,
                  characterRequiredMaterials(call.charName, CallGoal))
    /\ UNCHANGED <<call, storeVars>>

CallWeaponMaterials ==
    /\ Pending("cost")
    /\ ret' = Ret("weaponRequiredMaterials", 0, 0, 0, weaponRequiredMaterials(CallGoal))
    /\ UNCHANGED <<call, storeVars>>

CallSlotCost ==
    /\ Pending("cost")
    /\ \E i \in 1..5 :
        ret' = Ret("slotCost", slotXp(CallGoal.artifacts[i]),
                   slotMora(CallGoal.artifacts[i]), 0, <<>>)
    /\ UNCHANGED <<call, storeVars>>

CallTalentMaterials ==
    /\ Pending("cost")
    /\ \E k \in TalentKeys :
        ret' = Ret("getTalentMaterials", 0, 0, 0,
                   getTalentMaterials(call.charName, CallGoal, k))
    /\ UNCHANGED <<call, storeVars>>

NextCost ==
    \/ CallCharacterLevelUp
    \/ CallWeaponLevelUp
    \/ CallArtifactLevelCost
    \/ CallArtifactXpCost
    \/ CallCharacterAscension
    \/ CallWeaponAscension
    \/ CallCharacterMaterials
    \/ CallWeaponMaterials
    \/ CallSlotCost
    \/ CallTalentMaterials

SpecCost == InitCost /\ [][NextCost]_vars

(***************************************************************************)
(* SpecMerge: mergeCosts applied to drawn cost-item lists.                 *)
(***************************************************************************)
MergeLists ==
    UNION {[1..n -> {Item("Mora", 5), Item("Mora", 10), Item("Book", 2)}] :
            n \in 0..MaxListLen}

InitMerge ==
    /\ StoreIdle
    /\ call \in [fn : {"merge"}, a : MergeLists, b : MergeLists, c : MergeLists]
    /\ ret = NoRet

\* the lists folded one after the other into a fresh accumulator, as
\* getCharacterAscensionCosts folds the phases' lists
MergeAll(a, b, c) == mergeCosts(mergeCosts(mergeCosts(<<>>, a), b), c)

CallMergeFold ==
    /\ Pending("merge")
    /\ ret' = [fn |-> "fold", list |-> MergeAll(call.a, call.b, call.c)]
    /\ UNCHANGED <<call, storeVars>>

CallMergePairs ==
    /\ Pending("merge")
    /\ ret' = [fn |-> "pairs",
               ab   |-> MergeAll(call.a, call.b, <<>>),
               ba   |-> MergeAll(call.b, call.a, <<>>),
               ab_c |-> mergeCosts(MergeAll(call.a, call.b, <<>>), call.c),
               a_bc |-> mergeCosts(mergeCosts(<<>>, call.a),
                                   MergeAll(call.b, call.c, <<>>))]
    /\ UNCHANGED <<call, storeVars>>

NextMerge ==
    \/ CallMergeFold
    \/ CallMergePairs

SpecMerge == InitMerge /\ [][NextMerge]_vars

(***************************************************************************)
(* LevelRangeInput.vue and the tabs' edit functions.                       *)
(***************************************************************************)
\* the first option at or above clamped
FirstAtOrAbove(targetOptions, clamped) ==
    IF \E i \in 1..Len(targetOptions) : targetOptions[i] >= clamped
    THEN targetOptions[CHOOSE i \in 1..Len(targetOptions) :
            /\ targetOptions[i] >= clamped
            /\ \A j \in 1..(i - 1) : ~(targetOptions[j] >= clamped)]
    ELSE 0

\* the first option above clamped (targetOptions.find), 0 if there is none
FirstAbove(targetOptions, clamped) ==
    IF \E i \in 1..Len(targetOptions) : targetOptions[i] > clamped
    THEN targetOptions[CHOOSE i \in 1..Len(targetOptions) :
            /\ targetOptions[i] > clamped
            /\ \A j \in 1..(i - 1) : ~(targetOptions[j] > clamped)]
    ELSE 0

\* onCurrentInput with the typed integer val: the levels the two emits leave
onCurrentInput(currentLevel, targetLevel, val, currentMin, currentMax, targetOptions) ==
    LET clamped == Max(currentMin, Min(val, currentMax))
        next    == FirstAbove(targetOptions, clamped)
    IN  [currentLevel |-> clamped,
         targetLevel |-> IF targetLevel <= clamped /\ next # 0 THEN next ELSE targetLevel]

\* the options the target dropdown offers
validTargetOptions(targetOptions, currentLevel) ==
    {targetOptions[i] : i \in {k \in 1..Len(targetOptions) : targetOptions[k] > currentLevel}}

\* Object.keys(CHARACTER_CUMULATIVE_EXP).map(Number).filter(n => n > 1), and
\* the same over WEAPON_5STAR_CUMULATIVE_EXP
TARGET_LEVEL_OPTIONS == <<20, 40, 50, 60, 70, 80, 90>>
TALENT_LEVELS == <<1, 2, 3, 4, 5, 6, 7, 8, 9, 10>>

\* the defaults of the props currentMin and currentMax
DefaultCurrentMin == 1
DefaultCurrentMax == 89

MAIN_STATS ==
    [Flower  |-> <<"HP">>,
     Plume   |-> <<"ATK">>,
     Sands   |-> <<"HP%", "ATK%", "DEF%", "Elemental Mastery", "Energy Recharge%">>,
     Goblet  |-> <<"HP%", "ATK%", "DEF%", "Elemental Mastery", "Pyro DMG Bonus%",
                   "Hydro DMG Bonus%", "Electro DMG Bonus%", "Cryo DMG Bonus%",
                   "Anemo DMG Bonus%", "Geo DMG Bonus%", "Dendro DMG Bonus%",
                   "Physical DMG Bonus%">>,
     Circlet |-> <<"HP%", "ATK%", "DEF%", "Elemental Mastery", "CRIT Rate%",
                   "CRIT DMG%", "Healing Bonus%">>]

ALL_SUBSTATS ==
    <<"HP", "ATK", "DEF", "HP%", "ATK%", "DEF%", "Elemental Mastery",
      "Energy Recharge%", "CRIT Rate%", "CRIT DMG%">>

isMainStatLocked(slot) == slot = "Flower" \/ slot = "Plume"

Range(seq) == {seq[i] : i \in 1..Len(seq)}

availableSubstats(artifact) ==
    IF artifact.mainStat = Null THEN Range(ALL_SUBSTATS)
    ELSE {stat \in Range(ALL_SUBSTATS) : stat # artifact.mainStat}

\* the edit functions, on the goal they update; slotIndex is 1-based
setArtifactLevel(goal, slotIndex, field, val) ==
    IF field = "currentLevel"
    THEN [goal EXCEPT !.artifacts[slotIndex].currentLevel = val]
    ELSE [goal EXCEPT !.artifacts[slotIndex].targetLevel = val]

\* val is the option's value, "" for "Not set"
setMainStat(goal, slotIndex, val) ==
    [goal EXCEPT !.artifacts[slotIndex].mainStat = IF val = "" THEN Null ELSE val]

\* toggleSubstat that leaves targetSubstatCount alone
toggleSubstatUnclamped(goal, slotIndex, stat) ==
    LET artifact == goal.artifacts[slotIndex]
        idx      == IndexOf(artifact.desiredSubstats, stat)
    IN  [goal EXCEPT !.artifacts[slotIndex].desiredSubstats =
            IF idx = 0
            THEN (IF Len(artifact.desiredSubstats) < 4
                    THEN Append(artifact.desiredSubstats, stat)
                    ELSE artifact.desiredSubstats)
            ELSE Splice(artifact.desiredSubstats, idx)]

toggleSubstat(goal, slotIndex, stat) ==
    LET artifact == goal.artifacts[slotIndex]
        idx      == IndexOf(artifact.desiredSubstats, stat)
        substats == IF idx = 0
                    THEN (IF Len(artifact.desiredSubstats) < 4
                            THEN Append(artifact.desiredSubstats, stat)
                            ELSE artifact.desiredSubstats)
                    ELSE Splice(artifact.desiredSubstats, idx)
    IN  [goal EXCEPT !.artifacts[slotIndex].desiredSubstats = substats,
                     !.artifacts[slotIndex].targetSubstatCount =
                        IF @ > Len(substats) THEN Len(substats) ELSE @]

setTargetSubstatCount(goal, slotIndex, val) ==
    [goal EXCEPT !.artifacts[slotIndex].targetSubstatCount = val]

setTalentLevel(goal, talentKey, field, val) ==
    IF field = "currentLevel"
    THEN [goal EXCEPT !.talents[talentKey].currentLevel = val]
    ELSE [goal EXCEPT !.talents[talentKey].targetLevel = val]

\* WeaponTab.vue compatibleWeapons
compatibleWeapons(charName) ==
    IF charName \notin DOMAIN genshindb_characters THEN {}
    ELSE {name \in DOMAIN genshindb_weapons :
            genshindb_weapons[name].weaponType = genshindb_characters[charName].weaponType}

(***************************************************************************)
(* Spec: the store driven by the user interface.                           *)
(***************************************************************************)
\* what the user types into a current-level input, which of the offered
\* options the user picks, and the slots (1-based) and talents the user edits
TypedLevels == {20, 37, 95}
PickedTargets == {10, 20, 90}
PickedArtifactLevels == {4, 20}
EditedSlots == {1, 3}
EditedTalents == {"skill"}
PickedMainStats == {"", "ATK%"}
PickedSubstats == {"ATK%"}

\* files the user may pick for import
ImportTexts ==
    { BadText,
      JArr(<<>>),
      JObj([ownedCharacters |-> JArr(<<JStr("Amber"), JStr("Paimon")>>)]),
      JObj([selectedCharacter |-> JStr("Paimon")]),
      JObj([ownedCharacters |-> JArr(<<JStr("Bennett")>>),
            characterGoals |-> JObj([Paimon |-> GoalToJson(createDefaultGoal)])]),
      JObj([ownedCharacters |-> JArr(<<JStr("Bennett")>>),
            selectedCharacter |-> JNull,
            characterGoals |-> JObj([Bennett |->
                GoalToJson([createDefaultGoal EXCEPT !.currentLevel = 37])])]),
      JObj(EmptyMap),
      JObj([ownedCharacters |-> JArr(<<JStr("Bennett")>>),
            characterGoals |-> JObj([Bennett |-> GoalToJson(createDefaultGoal)]),
            selectedCharacter |-> JStr("Bennett")]),
      JObj([ownedCharacters |-> JArr(<<>>),
            selectedCharacter |-> JStr("Amber")]),
      JObj([characterGoals |-> JObj([Amber |->
                GoalToJson([createDefaultGoal EXCEPT
                    !.artifacts[1].mainStat = "DEF"])])]),
      JObj([characterGoals |-> JObj([Amber |->
                GoalToJson([createDefaultGoal EXCEPT
                    !.weapon = "Rust", !.weaponCurrentLevel = 37,
                    !.artifacts[3].targetLevel = 7])])]) }

\* what localStorage may hold when the application starts: nothing, or the
\* text an earlier session saved (the last one by a session that ended in
\* ownership mode: the flag is saved and not loaded)
InitialStorage ==
    { NoFile,
      Serialize(<<"Amber">>, ("Amber" :> createDefaultGoal), "Amber", FALSE),
      Serialize(<<"Amber", "Bennett">>, EmptyMap, Null, TRUE) }

\* the state once the module has loaded and CharacterGrid has mounted: the
\* immediate watcher enters ownership mode when nothing is owned, and that
\* mutation is saved, unless localStorage is full
Mounted(full) ==
    /\ quotaExceeded = full
    /\ \E raw \in InitialStorage :
        LET loaded == loadFromStorage(raw)
            mode   == Len(loaded.ownedCharacters) = 0
        IN  /\ ownedCharacters = loaded.ownedCharacters
            /\ characterGoals = loaded.characterGoals
            /\ selectedCharacter = loaded.selectedCharacter
            /\ ownershipMode = mode
            /\ storage = IF mode /\ ~full
                         THEN Serialize(loaded.ownedCharacters, loaded.characterGoals,
                                        loaded.selectedCharacter, TRUE)
                         ELSE raw
    /\ exportedFile = NoFile
    /\ exportedState = NoFile
    /\ lastOp = [op |-> "init"]
    /\ steps = 0
    /\ call = NoCall
    /\ ret = NoRet

\* localStorage has room: no write fails
Init == Mounted(FALSE)

\* one more handler runs
Step(op) ==
    /\ steps < MaxSteps
    /\ steps' = steps + 1
    /\ lastOp' = op
    /\ UNCHANGED <<call, ret, quotaExceeded>>

\* a watcher that is not deep: it runs when a top-level scalar of the state is
\* replaced, and misses the mutations inside the roster and the goals
AutoSaveShallow(triggered) ==
    storage' = IF triggered /\ (\/ selectedCharacter' # selectedCharacter
                                \/ ownershipMode' # ownershipMode)
               THEN Serialize(ownedCharacters', characterGoals', selectedCharacter',
                              ownershipMode')
               ELSE storage

\* the auto-save watcher: a mutation of the state is followed by a save;
\* when localStorage is full setItem throws inside the watcher's callback,
\* where the exception is reported and goes no further
AutoSave(triggered) ==
    storage' = IF triggered /\ ~quotaExceeded
               THEN Serialize(ownedCharacters', characterGoals', selectedCharacter',
                              ownershipMode')
               ELSE storage

\* updateGoal(state.selectedCharacter, ...) leaving newGoal
UpdateCurrentGoal(newGoal) ==
    /\ characterGoals' =
         [ensureGoal(characterGoals, selectedCharacter) EXCEPT ![selectedCharacter] = newGoal]
    /\ UNCHANGED <<ownedCharacters, selectedCharacter, ownershipMode,
                   exportedFile, exportedState>>
    /\ AutoSave(characterGoals' # characterGoals)

\* OwnershipToggle.vue toggle
toggle ==
    /\ Step([op |-> "toggle"])
    /\ ownershipMode' = ~ownershipMode
    /\ UNCHANGED <<ownedCharacters, characterGoals, selectedCharacter,
                   exportedFile, exportedState>>
    /\ AutoSave(TRUE)

\* the card click under a watcher that flushes synchronously: the exception of
\* a failing save surfaces in selectCharacter right after ensureGoal created
\* the goal, and the selection is never assigned
handleCardClickSyncFlush ==
    /\ steps < MaxSteps
    /\ \E name \in displayedCharacters :
        /\ Step([op |-> "handleCardClick", name |-> name])
        /\ IF ownershipMode
           THEN /\ ownedCharacters' = toggleOwnership(ownedCharacters, name)
                /\ ownershipMode' =
                     OwnedLengthWatcher(ownershipMode, ownedCharacters, ownedCharacters')
                /\ UNCHANGED <<characterGoals, selectedCharacter>>
           ELSE /\ characterGoals' = ensureGoal(characterGoals, name)
                /\ selectedCharacter' =
                     IF quotaExceeded /\ name \notin DOMAIN characterGoals
                     THEN selectedCharacter ELSE name
                /\ UNCHANGED <<ownedCharacters, ownershipMode>>
    /\ UNCHANGED <<exportedFile, exportedState>>
    /\ AutoSave(<<ownedCharacters', characterGoals', selectedCharacter'>>
                # <<ownedCharacters, characterGoals, selectedCharacter>>)

\* a card click whose roster removal also drops the character's goal record
handleCardClickPurging ==
    /\ steps < MaxSteps
    /\ \E name \in displayedCharacters :
        /\ Step([op |-> "handleCardClick", name |-> name])
        /\ IF ownershipMode
           THEN /\ ownedCharacters' = toggleOwnership(ownedCharacters, name)
                /\ ownershipMode' =
                     OwnedLengthWatcher(ownershipMode, ownedCharacters, ownedCharacters')
                /\ characterGoals' =
                     IF IndexOf(ownedCharacters, name) # 0
                     THEN [n \in DOMAIN characterGoals \ {name} |-> characterGoals[n]]
                     ELSE characterGoals
                /\ UNCHANGED selectedCharacter
           ELSE /\ characterGoals' = ensureGoal(characterGoals, name)
                /\ selectedCharacter' = name
                /\ UNCHANGED <<ownedCharacters, ownershipMode>>
    /\ UNCHANGED <<exportedFile, exportedState>>
    /\ AutoSave(<<ownedCharacters', characterGoals', selectedCharacter'>>
                # <<ownedCharacters, characterGoals, selectedCharacter>>)

\* CharacterGrid.vue handleCardClick: toggleOwnership in ownership mode (and
\* the watcher of the roster's length), selectCharacter otherwise
handleCardClick ==
    /\ steps < MaxSteps
    /\ \E name \in displayedCharacters :
        /\ Step([op |-> "handleCardClick", name |-> name])
        /\ IF ownershipMode
           THEN /\ ownedCharacters' = toggleOwnership(ownedCharacters, name)
                /\ ownershipMode' =
                     OwnedLengthWatcher(ownershipMode, ownedCharacters, ownedCharacters')
                /\ UNCHANGED <<characterGoals, selectedCharacter>>
           ELSE /\ characterGoals' = ensureGoal(characterGoals, name)
                /\ selectedCharacter' = name
                /\ UNCHANGED <<ownedCharacters, ownershipMode>>
    /\ UNCHANGED <<exportedFile, exportedState>>
    /\ AutoSave(<<ownedCharacters', characterGoals', selectedCharacter'>>
                # <<ownedCharacters, characterGoals, selectedCharacter>>)

exportData ==
    /\ Step([op |-> "exportData"])
    /\ exportedFile' = Serialize(ownedCharacters, characterGoals, selectedCharacter,
                                 ownershipMode)
    /\ exportedState' = Store(ownedCharacters, characterGoals, selectedCharacter)
    /\ UNCHANGED <<ownedCharacters, characterGoals, selectedCharacter, ownershipMode,
                   storage>>

\* CharacterGrid.vue handleImport with the picked file read: importData, and
\* the watcher of the roster's length
handleImport ==
    /\ steps < MaxSteps
    /\ \E text \in ImportTexts \cup ({exportedFile} \ {NoFile}) :
        LET r == importData(text, ownedCharacters, characterGoals, selectedCharacter)
        IN  /\ Step([op |-> "importData", text |-> text, accepted |-> r.accepted])
            /\ ownedCharacters' = r.store.ownedCharacters
            /\ characterGoals' = r.store.characterGoals
            /\ selectedCharacter' = r.store.selectedCharacter
            /\ ownershipMode' =
                 OwnedLengthWatcher(ownershipMode, ownedCharacters, ownedCharacters')
            /\ AutoSave(r.accepted)
    /\ UNCHANGED <<exportedFile, exportedState>>

\* CharacterLevelTab.vue: the current-level input
characterCurrentInput ==
    /\ Step([op |-> "characterCurrentInput"])
    /\ HasCurrentGoal
    /\ \E val \in TypedLevels :
        LET new == onCurrentInput(currentGoal.currentLevel, currentGoal.targetLevel,
                                  val, 1, 89, TARGET_LEVEL_OPTIONS)
        IN  UpdateCurrentGoal([currentGoal EXCEPT !.currentLevel = new.currentLevel,
                                                  !.targetLevel = new.targetLevel])

\* CharacterLevelTab.vue: the target dropdown
characterTargetChange ==
    /\ Step([op |-> "characterTargetChange"])
    /\ HasCurrentGoal
    /\ \E val \in validTargetOptions(TARGET_LEVEL_OPTIONS, currentGoal.currentLevel)
                  \cap PickedTargets :
        UpdateCurrentGoal([currentGoal EXCEPT !.targetLevel = val])

\* WeaponTab.vue setWeapon
setWeapon ==
    /\ Step([op |-> "setWeapon"])
    /\ HasCurrentGoal
    /\ \E value \in compatibleWeapons(selectedCharacter) \cup {""} :
        UpdateCurrentGoal([currentGoal EXCEPT
                             !.weapon = IF value = "" THEN Null ELSE value])

\* WeaponTab.vue: the current-level input, shown once a weapon is selected
weaponCurrentInput ==
    /\ Step([op |-> "weaponCurrentInput"])
    /\ HasCurrentGoal
    /\ currentGoal.weapon # Null
    /\ \E val \in TypedLevels :
        LET new == onCurrentInput(currentGoal.weaponCurrentLevel,
                                  currentGoal.weaponTargetLevel, val,
                                  DefaultCurrentMin, DefaultCurrentMax,
                                  TARGET_LEVEL_OPTIONS)
        IN  UpdateCurrentGoal([currentGoal EXCEPT
                                 !.weaponCurrentLevel = new.currentLevel,
                                 !.weaponTargetLevel = new.targetLevel])

weaponTargetChange ==
    /\ Step([op |-> "weaponTargetChange"])
    /\ HasCurrentGoal
    /\ currentGoal.weapon # Null
    /\ \E val \in validTargetOptions(TARGET_LEVEL_OPTIONS, currentGoal.weaponCurrentLevel)
                  \cap PickedTargets :
        UpdateCurrentGoal([currentGoal EXCEPT !.weaponTargetLevel = val])

\* ArtifactsTab.vue: the two level dropdowns of a slot
artifactLevelChange ==
    /\ Step([op |-> "setArtifactLevel"])
    /\ HasCurrentGoal
    /\ \E idx \in EditedSlots :
        \/ \E val \in Range(ARTIFACT_LEVEL_OPTIONS) \cap PickedArtifactLevels :
            UpdateCurrentGoal(setArtifactLevel(currentGoal, idx, "currentLevel", val))
        \/ \E val \in {l \in Range(ARTIFACT_LEVEL_OPTIONS) :
                        l > currentGoal.artifacts[idx].currentLevel}
                      \cap PickedArtifactLevels :
            UpdateCurrentGoal(setArtifactLevel(currentGoal, idx, "targetLevel", val))

\* ArtifactsTab.vue: the main stat dropdown, shown for the slots that are not locked
mainStatChange ==
    /\ Step([op |-> "setMainStat"])
    /\ HasCurrentGoal
    /\ \E idx \in EditedSlots :
        /\ ~isMainStatLocked(currentGoal.artifacts[idx].slot)
        /\ \E val \in (Range(MAIN_STATS[currentGoal.artifacts[idx].slot]) \cup {""})
                      \cap PickedMainStats :
            UpdateCurrentGoal(setMainStat(currentGoal, idx, val))

\* ArtifactsTab.vue: a substat chip
substatClick ==
    /\ Step([op |-> "toggleSubstat"])
    /\ HasCurrentGoal
    /\ \E idx \in EditedSlots :
        \E stat \in availableSubstats(currentGoal.artifacts[idx]) \cap PickedSubstats :
            UpdateCurrentGoal(toggleSubstat(currentGoal, idx, stat))

\* ArtifactsTab.vue: the "farming for" dropdown, shown when substats are desired
targetSubstatCountChange ==
    /\ Step([op |-> "setTargetSubstatCount"])
    /\ HasCurrentGoal
    /\ \E idx \in EditedSlots :
        \E val \in 1..Len(currentGoal.artifacts[idx].desiredSubstats) :
            UpdateCurrentGoal(setTargetSubstatCount(currentGoal, idx, val))

\* TalentsTab.vue: the current-level input of a talent
talentCurrentInput ==
    /\ Step([op |-> "talentCurrentInput"])
    /\ HasCurrentGoal
    /\ \E key \in EditedTalents :
        \E val \in TypedLevels :
            LET t   == currentGoal.talents[key]
                new == onCurrentInput(t.currentLevel, t.targetLevel, val,
                                      DefaultCurrentMin, DefaultCurrentMax, TALENT_LEVELS)
            IN  UpdateCurrentGoal(
                    setTalentLevel(setTalentLevel(currentGoal, key, "currentLevel",
                                                  new.currentLevel),
                                   key, "targetLevel", new.targetLevel))

talentTargetChange ==
    /\ Step([op |-> "talentTargetChange"])
    /\ HasCurrentGoal
    /\ \E key \in EditedTalents :
        \E val \in validTargetOptions(TALENT_LEVELS, currentGoal.talents[key].currentLevel)
                   \cap PickedTargets :
            UpdateCurrentGoal(setTalentLevel(currentGoal, key, "targetLevel", val))

Next ==
    \/ toggle
    \/ handleCardClick
    \/ exportData
    \/ handleImport
    \/ characterCurrentInput
    \/ characterTargetChange
    \/ setWeapon
    \/ weaponCurrentInput
    \/ weaponTargetChange
    \/ artifactLevelChange
    \/ mainStatChange
    \/ substatClick
    \/ targetSubstatCountChange
    \/ talentCurrentInput
    \/ talentTargetChange

Spec == Init /\ [][Next]_vars

(***************************************************************************)
(* SpecQuota: the store while localStorage may be full.                    *)
(***************************************************************************)
\* the environment: localStorage fills up (setItem throws from now on), or
\* room is made
quotaChange ==
    /\ quotaExceeded' = ~quotaExceeded
    /\ UNCHANGED <<ownedCharacters, characterGoals, selectedCharacter, ownershipMode,
                   storage, exportedFile, exportedState, lastOp, steps, call, ret>>

NextQuota ==
    \/ quotaChange
    \/ toggle
    \/ handleCardClick
    \/ handleImport
    \/ characterCurrentInput
    \/ characterTargetChange

SpecQuota == (\E full \in BOOLEAN : Mounted(full)) /\ [][NextQuota]_vars

(***************************************************************************)
(* SpecTotals: the roster's total materials (the totals aggregator) read   *)
(* between edits of the goals.                                             *)
(***************************************************************************)
\* the cost lists of the dimensions of one goal: character, weapon, the five
\* artifact slots (Mora and artifact EXP), and the three talents; a dimension
\* at or past its target contributes an empty list
DimensionCosts(charName, goal) ==
    <<characterRequiredMaterials(charName, goal),
      weaponRequiredMaterials(goal)>>
    \o [i \in 1..Len(goal.artifacts) |->
            IF slotMora(goal.artifacts[i]) = 0 /\ slotXp(goal.artifacts[i]) = 0 THEN <<>>
            ELSE <<Item("Mora", slotMora(goal.artifacts[i])),
                   Item("Artifact EXP", slotXp(goal.artifacts[i]))>>]
    \o [i \in 1..Len(VALID_TALENT_KEYS) |->
            getTalentMaterials(charName, goal, VALID_TALENT_KEYS[i])]

\* the lists folded through mergeCosts into the accumulator, one after the
\* other (merged is the accumulator after the first list)
RECURSIVE FoldLists(_, _)
FoldLists(accumulator, lists) ==
    IF lists = <<>> THEN accumulator
    ELSE CHOOSE result \in {FoldLists(merged, Tail(lists)) :
                                merged \in {mergeCosts(accumulator, Head(lists))}} : TRUE

\* the merged cost list of one goal
goalCosts(charName, goal) == FoldLists(<<>>, DimensionCosts(charName, goal))

\* the goals of the names, each merged cost list folded into the accumulator
RECURSIVE FoldGoals(_, _, _)
FoldGoals(accumulator, goals, names) ==
    IF names = {} THEN accumulator
    ELSE LET charName == CHOOSE n \in names : TRUE
         IN  CHOOSE result \in
                {FoldGoals(merged, goals, names \ {charName}) :
                    merged \in {mergeCosts(accumulator,
                                           goalCosts(charName, goals[charName]))}} : TRUE

\* the grand total over every identifier that has a goal record
totalMaterials == FoldGoals(<<>>, characterGoals, DOMAIN characterGoals)

\* MaterialSummary.vue renders totalMaterials
materialSummary ==
    /\ \E list \in {totalMaterials} : lastOp' = [op |-> "totalMaterials", list |-> list]
    /\ UNCHANGED <<ownedCharacters, characterGoals, selectedCharacter, ownershipMode,
                   storage, quotaExceeded, exportedFile, exportedState, steps, call, ret>>

NextTotals ==
    \/ materialSummary
    \/ handleCardClick
    \/ characterCurrentInput
    \/ characterTargetChange
    \/ setWeapon
    \/ weaponCurrentInput
    \/ artifactLevelChange
    \/ talentTargetChange

SpecTotals == Init /\ [][NextTotals]_vars

(***************************************************************************)
(* SpecSubstats: the substat chips and the "farming for" dropdown, on a    *)
(* session that earlier substat edits of the Sands left in localStorage.   *)
(***************************************************************************)
\* the store loaded from what an earlier session saved: Amber's goal with the
\* substats that session's chip clicks left desired for the Sands, and a
\* "farming for" count within them
InitSubstats ==
    /\ \E substats \in { <<>>, <<"HP">>, <<"HP", "ATK">>, <<"HP", "ATK", "DEF">>,
                          <<"HP", "ATK", "DEF", "HP%">>,
                          <<"HP", "ATK%", "DEF", "HP%">> } :
        \E count \in 0..Len(substats) :
            LET goal == [createDefaultGoal EXCEPT
                            !.artifacts[3].desiredSubstats = substats,
                            !.artifacts[3].targetSubstatCount = count]
                raw  == Serialize(<<"Amber">>, ("Amber" :> goal), "Amber", FALSE)
                loaded == loadFromStorage(raw)
            IN  /\ ownedCharacters = loaded.ownedCharacters
                /\ characterGoals = loaded.characterGoals
                /\ selectedCharacter = loaded.selectedCharacter
                /\ storage = raw
    /\ ownershipMode = FALSE
    /\ quotaExceeded = FALSE
    /\ exportedFile = NoFile
    /\ exportedState = NoFile
    /\ lastOp = [op |-> "init"]
    /\ steps = 0
    /\ call = NoCall
    /\ ret = NoRet

NextSubstats == substatClick \/ targetSubstatCountChange

SpecSubstats == InitSubstats /\ [][NextSubstats]_vars

(***************************************************************************)
(* SpecAsync: the import with its asynchronous file read.  The change      *)
(* handler of the file input starts FileReader.readAsText; the handlers of *)
(* the user interface go on running until the reader's load event, whose   *)
(* callback is importData(reader.result), run to completion, and then the  *)
(* flush of the watchers.                                                  *)
(***************************************************************************)
\* input.onchange: a file is picked and its read started
filePicked ==
    /\ steps < MaxSteps
    /\ call = NoCall
    /\ \E text \in ImportTexts :
        call' = [fn |-> "readAsText", text |-> text, at |-> steps + 1]
    /\ steps' = steps + 1
    /\ lastOp' = [op |-> "handleImport"]
    /\ UNCHANGED <<ownedCharacters, characterGoals, selectedCharacter, ownershipMode,
                   storage, quotaExceeded, exportedFile, exportedState, ret>>

\* reader.onload: importData on the text read, then the watchers
readerOnload ==
    /\ steps < MaxSteps
    /\ call # NoCall
    /\ LET r == importData(call.text, ownedCharacters, characterGoals, selectedCharacter)
       IN  /\ lastOp' = [op |-> "importData", text |-> call.text,
                         accepted |-> r.accepted, pickedAt |-> call.at]
           /\ ownedCharacters' = r.store.ownedCharacters
           /\ characterGoals' = r.store.characterGoals
           /\ selectedCharacter' = r.store.selectedCharacter
           /\ ownershipMode' =
                OwnedLengthWatcher(ownershipMode, ownedCharacters, ownedCharacters')
           /\ AutoSave(r.accepted)
    /\ steps' = steps + 1
    /\ call' = NoCall
    /\ UNCHANGED <<quotaExceeded, exportedFile, exportedState, ret>>

NextAsync ==
    \/ filePicked
    \/ readerOnload
    \/ toggle
    \/ handleCardClick
    \/ characterCurrentInput

SpecAsync == Init /\ [][NextAsync]_vars

(***************************************************************************)
(* SpecStartup: the start of the application, step by step.  The module    *)
(* useTrainingGuide.js constructs the reactive state, calls                *)
(* loadFromStorage() and registers the auto-save watcher; CharacterGrid's  *)
(* setup then runs its immediate watcher, and the watchers are flushed;    *)
(* after that the handlers of the user interface run.  lastOp is the       *)
(* position: the last of these steps that ran.                             *)
(***************************************************************************)
\* the reactive state as constructed, over what localStorage holds: one of
\* the texts of InitialStorage, or the text of a session in which the last
\* owned character was removed while her goal record stayed
InitStartup ==
    /\ ownedCharacters = <<>>
    /\ characterGoals = EmptyMap
    /\ selectedCharacter = Null
    /\ ownershipMode = FALSE
    /\ storage \in InitialStorage
            \cup {Serialize(<<>>, ("Amber" :> createDefaultGoal), "Amber", TRUE)}
    /\ quotaExceeded = FALSE
    /\ exportedFile = NoFile
    /\ exportedState = NoFile
    /\ lastOp = [op |-> "reactive"]
    /\ steps = 0
    /\ call = NoCall
    /\ ret = NoRet

\* a module that registers the watcher and leaves the load to a later hook
moduleInitWithoutLoad ==
    /\ lastOp.op = "reactive"
    /\ lastOp' = [op |-> "moduleInit"]
    /\ UNCHANGED <<ownedCharacters, characterGoals, selectedCharacter, ownershipMode,
                   storage, quotaExceeded, exportedFile, exportedState, steps, call, ret>>

\* the rest of the module: loadFromStorage(), then watch(state, ..., deep);
\* the assignments of the load come before the watcher exists
moduleInit ==
    /\ lastOp.op = "reactive"
    /\ LET loaded == loadFromStorage(storage)
       IN  /\ ownedCharacters' = loaded.ownedCharacters
           /\ characterGoals' = loaded.characterGoals
           /\ selectedCharacter' = loaded.selectedCharacter
    /\ lastOp' = [op |-> "moduleInit"]
    /\ UNCHANGED <<ownershipMode, storage, quotaExceeded, exportedFile, exportedState,
                   steps, call, ret>>

\* CharacterGrid setup: the immediate watcher of ownedCharacters.length, and
\* the flush of the auto-save watcher when it mutated the state
characterGridSetup ==
    /\ lastOp.op = "moduleInit"
    /\ ownershipMode' = IF Len(ownedCharacters) = 0 THEN TRUE ELSE ownershipMode
    /\ lastOp' = [op |-> "mounted"]
    /\ UNCHANGED <<ownedCharacters, characterGoals, selectedCharacter, quotaExceeded,
                   exportedFile, exportedState, steps, call, ret>>
    /\ AutoSave(ownershipMode' # ownershipMode)

NextStartup ==
    \/ moduleInit
    \/ characterGridSetup
    \/ (lastOp.op \notin {"reactive", "moduleInit"} /\ toggle)
    \/ (lastOp.op \notin {"reactive", "moduleInit"} /\ handleCardClick)
    \/ (lastOp.op \notin {"reactive", "moduleInit"} /\ characterCurrentInput)

SpecStartup == InitStartup /\ [][NextStartup]_vars

(***************************************************************************)
(* SpecImport: validateImportData and importData applied to drawn          *)
(* documents.                                                              *)
(***************************************************************************)
\* the object with the keys of the record parts whose value is not Undefined
ObjectOf(parts) == JObj([k \in {key \in DOMAIN parts : parts[key] # Undefined} |-> parts[k]])

\* object with the key set to value
WithField(object, key, value) == JObj((key :> value) @@ object.fields)
DefaultGoalDocument == GoalToJson(createDefaultGoal)

\* the values drawn for a key of characterGoals (Undefined: no such key)
GoalDocuments ==
  LET DefaultArtifacts == Get(DefaultGoalDocument, "artifacts").items
      DefaultTalents   == Get(DefaultGoalDocument, "talents")
      WithoutBurst     == JObj([k \in TalentKeys \ {"burst"} |-> DefaultTalents.fields[k]])
  IN
    { Undefined,
      DefaultGoalDocument,
      JNull,
      WithField(DefaultGoalDocument, "currentLevel", JNum(37)),
      WithField(DefaultGoalDocument, "targetLevel", JStr("90")),
      WithField(DefaultGoalDocument, "currentLevel", JObj([toString |-> JNum(1)])),
      WithField(DefaultGoalDocument, "artifacts", JArr(Splice(DefaultArtifacts, 5))),
      WithField(DefaultGoalDocument, "artifacts", JArr(Splice(DefaultArtifacts, 3))),
      WithField(DefaultGoalDocument, "artifacts",
                JArr([DefaultArtifacts EXCEPT ![1] = DefaultArtifacts[2],
                                              ![2] = DefaultArtifacts[1]])),
      WithField(DefaultGoalDocument, "artifacts",
                JArr([DefaultArtifacts EXCEPT ![4] = JNull])),
      WithField(DefaultGoalDocument, "talents", WithoutBurst),
      WithField(DefaultGoalDocument, "talents",
                WithField(DefaultTalents, "skill",
                          JObj([currentLevel |-> JNum(11), targetLevel |-> JNum(9)]))),
      WithField(DefaultGoalDocument, "talents",
                WithField(DefaultTalents, "normalAttack",
                          JObj([currentLevel |-> JNum(1), targetLevel |-> JNum(0)]))),
      WithField(DefaultGoalDocument, "talents",
                WithField(DefaultTalents, "burst", JObj([currentLevel |-> JNum(3)]))),
      WithField(DefaultGoalDocument, "talents", JNull),
      WithField(WithField(DefaultGoalDocument, "targetLevel", JNum(95)), "talents",
                WithField(DefaultTalents, "burst",
                          JObj([currentLevel |-> JNum(0), targetLevel |-> JNum(12)]))) }

OwnedDocuments ==
    { Undefined,
      JArr(<<JStr("Amber"), JStr("Bennett")>>),
      JArr(<<JStr("Paimon"), JStr("Bennett")>>),
      JArr(<<JNum(3), JStr("Dainsleif")>>),
      JStr("Amber") }

SelectedDocuments ==
    { Undefined, JNull, JStr("Bennett"), JStr("Paimon"), JNum(1),
      JObj([toString |-> JNum(1)]) }

\* the documents drawn: the three top-level keys, each present or not, with
\* goals for the two known characters
ImportDocuments ==
    { ObjectOf([ownedCharacters |-> owned, selectedCharacter |-> selected,
                characterGoals |->
                    IF amber = Undefined /\ bennett = Undefined THEN Undefined
                    ELSE ObjectOf([Amber |-> amber, Bennett |-> bennett])]) :
        owned \in OwnedDocuments, selected \in SelectedDocuments,
        amber \in GoalDocuments, bennett \in GoalDocuments }

\* a store a session has reached: Amber owned and selected, with her default goal
InitImport ==
    /\ ownedCharacters = <<"Amber">>
    /\ characterGoals = ("Amber" :> createDefaultGoal)
    /\ selectedCharacter = "Amber"
    /\ ownershipMode = FALSE
    /\ storage = Serialize(<<"Amber">>, ("Amber" :> createDefaultGoal), "Amber", FALSE)
    /\ quotaExceeded = FALSE
    /\ exportedFile = NoFile
    /\ exportedState = NoFile
    /\ lastOp = [op |-> "init"]
    /\ steps = 0
    /\ call \in [fn : {"import"}, text : ImportDocuments]
    /\ ret = NoRet

\* validateImportData(parsed): the returned list, or the exception
CallValidateImportData ==
    /\ Pending("import")
    /\ ret' = [fn |-> "validateImportData",
               throws |-> validateImportDataThrows(call.text),
               errors |-> IF validateImportDataThrows(call.text) THEN <<>>
                          ELSE validateImportData(call.text)]
    /\ UNCHANGED <<call, storeVars>>

\* CharacterGrid.vue handleImport with the drawn document
CallImportData ==
    /\ Pending("import")
    /\ LET r == importData(call.text, ownedCharacters, characterGoals, selectedCharacter)
       IN  /\ ret' = [fn |-> "importData", accepted |-> r.accepted]
           /\ ownedCharacters' = r.store.ownedCharacters
           /\ characterGoals' = r.store.characterGoals
           /\ selectedCharacter' = r.store.selectedCharacter
           /\ ownershipMode' =
                OwnedLengthWatcher(ownershipMode, ownedCharacters, ownedCharacters')
           /\ AutoSave(r.accepted)
    /\ UNCHANGED <<quotaExceeded, exportedFile, exportedState, lastOp, steps, call>>

NextImport ==
    \/ CallValidateImportData
    \/ CallImportData

SpecImport == InitImport /\ [][NextImport]_vars

(***************************************************************************)
(* Properties of the store (Spec).                                         *)
(***************************************************************************)
\* the text is unparseable or validation returns a non-empty error list
Rejected(text) == text = BadText \/ Len(validateImportData(text)) > 0

\* the document names an identifier outside the known character list in
\* ownedCharacters, as selectedCharacter or as a key of characterGoals
MentionsUnknownCharacter(text) ==
    /\ text.type = "object"
    /\ LET owned    == Get(text, "ownedCharacters")
           selected == Get(text, "selectedCharacter")
           goals    == Get(text, "characterGoals")
       IN  \/ /\ owned.type = "array"
              /\ \E i \in 1..Len(owned.items) :
                    /\ owned.items[i].type = "string"
                    /\ owned.items[i].str \notin getAllCharacterNames
           \/ selected.type = "string" /\ selected.str \notin getAllCharacterNames
           \/ /\ goals.type = "object"
              /\ \E name \in DOMAIN goals.fields : name \notin getAllCharacterNames

\* C1: import is atomic on rejection: an importData of a text that is
\* unparseable, or fails validation, or names an unknown character, leaves
\* ownedCharacters, characterGoals and selectedCharacter as they were.
C1_ImportAtomicOnRejection ==
    [][(/\ steps' = steps + 1
        /\ lastOp'.op = "importData"
        /\ Rejected(lastOp'.text) \/ MentionsUnknownCharacter(lastOp'.text))
       => UNCHANGED <<ownedCharacters, characterGoals, selectedCharacter>>]_vars

\* C1 witness: a document that names Paimon was imported into a store with a
\* selected character and refused, although its ownedCharacters differs from
\* the roster
C1_Witness ==
    /\ lastOp.op = "importData"
    /\ ~lastOp.accepted
    /\ MentionsUnknownCharacter(lastOp.text)
    /\ IsArray(Get(lastOp.text, "ownedCharacters"))
    /\ FromJson(Get(lastOp.text, "ownedCharacters")) # ownedCharacters
    /\ selectedCharacter # Null
    /\ ownedCharacters # <<>>

\* C2: export/import round trip: importing the document exportData produced
\* from a store state S is accepted and leaves ownedCharacters,
\* characterGoals and selectedCharacter equal to those of S.
C2_ExportImportRoundTrip ==
    (lastOp.op = "importData" /\ exportedFile # NoFile /\ lastOp.text = exportedFile) =>
        /\ lastOp.accepted
        /\ Store(ownedCharacters, characterGoals, selectedCharacter) = exportedState

\* C3: in every reachable state selectedCharacter is null or a member of
\* ownedCharacters.
C3_SelectedIsOwned ==
    selectedCharacter = Null \/ selectedCharacter \in Range(ownedCharacters)

CharacterLevelSet == {1, 20, 40, 50, 60, 70, 80, 90}
ArtifactLevelSet == {0, 4, 8, 12, 16, 20}
TalentLevelSet == 1..10

\* C4: in every reachable state every goal record holds only in-set levels:
\* the character and weapon levels are in {1,20,40,50,60,70,80,90}, every
\* artifact level is in {0,4,8,12,16,20}, every talent level is an integer in
\* [1,10]; an out-of-set value is never stored.
C4_LevelsInSets ==
    \A name \in DOMAIN characterGoals :
        LET goal == characterGoals[name]
        IN  /\ goal.currentLevel \in CharacterLevelSet
            /\ goal.targetLevel \in CharacterLevelSet
            /\ goal.weaponCurrentLevel \in CharacterLevelSet
            /\ goal.weaponTargetLevel \in CharacterLevelSet
            /\ \A i \in 1..Len(goal.artifacts) :
                /\ goal.artifacts[i].currentLevel \in ArtifactLevelSet
                /\ goal.artifacts[i].targetLevel \in ArtifactLevelSet
            /\ \A key \in DOMAIN goal.talents :
                /\ goal.talents[key].currentLevel \in TalentLevelSet
                /\ goal.talents[key].targetLevel \in TalentLevelSet

\* C5: the main stat of the two locked slots never changes: in every
\* reachable state every goal record has mainStat "HP" in artifacts[0]
\* (Flower) and "ATK" in artifacts[1] (Plume), whatever was written or imported.
C5_LockedMainStats ==
    \A name \in DOMAIN characterGoals :
        /\ characterGoals[name].artifacts[1].mainStat = "HP"
        /\ characterGoals[name].artifacts[2].mainStat = "ATK"

RosterKeys == {"ownedCharacters", "characterGoals", "selectedCharacter"}

\* C15: the exported document has exactly the three top-level keys
\* ownedCharacters, characterGoals and selectedCharacter, with the values of
\* the store at the export, and no other key; and import rejects a document
\* of any other top-level shape (extra keys, or none of these keys).
C15_ExportShapeAndImportShape ==
    /\ exportedFile # NoFile =>
        /\ DOMAIN exportedFile.fields = RosterKeys
        /\ FromJson(exportedFile) = exportedState
    /\ (lastOp.op = "importData" /\ lastOp.text.type = "object"
            /\ DOMAIN lastOp.text.fields # RosterKeys) => ~lastOp.accepted

\* the values the exported document gives the three keys are those of the store
ExportedValuesAreTheStore ==
    exportedFile # NoFile =>
        /\ RosterKeys \subseteq DOMAIN exportedFile.fields
        /\ \A key \in RosterKeys : FromJson(exportedFile.fields[key]) = exportedState[key]

\* the persisted document is the serialization of the store
Persisted ==
    storage = Serialize(ownedCharacters, characterGoals, selectedCharacter, ownershipMode)

StoreFields == <<ownedCharacters, characterGoals, selectedCharacter, ownershipMode>>

\* C16: write-through persistence: every handler that mutates the store
\* (ownership toggle, selection, goal field edit, accepted import) leaves the
\* persisted snapshot equal to the full serialization of the store it leaves,
\* and a snapshot that equals the store keeps equal to it: no mutation is
\* left unpersisted.
C16_WriteThroughPersistence ==
    [][(StoreFields' # StoreFields \/ Persisted) => Persisted']_vars

\* C16 witness: a level typed into the selected character's goal, a mutation
\* deep inside characterGoals, is in the persisted document
C16_Witness ==
    /\ lastOp.op = "characterCurrentInput"
    /\ HasCurrentGoal
    /\ currentGoal.currentLevel = 37
    /\ Get(Get(Get(storage, "characterGoals"), selectedCharacter), "currentLevel") = JNum(37)
    /\ Persisted

\* the least milestone strictly greater than level
LeastMilestoneAbove(level) ==
    CHOOSE m \in CharacterLevelSet :
        m > level /\ \A other \in CharacterLevelSet : other > level => m <= other

\* C19: auto-advance of the target: when the current level of the character
\* or weapon dimension is set to a value >= the existing target level, the
\* target level becomes the least milestone strictly greater than the new
\* current level; hence after every level edit of these dimensions
\* currentLevel < targetLevel holds in the edited dimension.
C19_AutoAdvanceTarget ==
    [][(steps' = steps + 1 /\ HasCurrentGoal) =>
        LET old == characterGoals[selectedCharacter]
            new == characterGoals'[selectedCharacter]
        IN  /\ lastOp'.op \in {"characterCurrentInput", "characterTargetChange"} =>
                    new.currentLevel < new.targetLevel
            /\ (lastOp'.op = "characterCurrentInput"
                    /\ new.currentLevel >= old.targetLevel) =>
                    new.targetLevel = LeastMilestoneAbove(new.currentLevel)
            /\ lastOp'.op \in {"weaponCurrentInput", "weaponTargetChange"} =>
                    new.weaponCurrentLevel < new.weaponTargetLevel
            /\ (lastOp'.op = "weaponCurrentInput"
                    /\ new.weaponCurrentLevel >= old.weaponTargetLevel) =>
                    new.weaponTargetLevel = LeastMilestoneAbove(new.weaponCurrentLevel)
      ]_vars

\* C19 witness: level 20 typed as the current level of a character whose
\* target was 20 (the target moved on to 40)
C19_Witness ==
    /\ lastOp.op = "characterCurrentInput"
    /\ HasCurrentGoal
    /\ currentGoal.currentLevel = 20
    /\ currentGoal.targetLevel = 40
    /\ steps = 2

\* C21: main stat and desired substats are mutually exclusive: in every
\* reachable state and for every artifact slot of every goal, the slot's
\* mainStat is not an element of its desiredSubstats.
C21_MainStatNotInSubstats ==
    \A charName \in DOMAIN characterGoals :
        \A idx \in 1..Len(characterGoals[charName].artifacts) :
            characterGoals[charName].artifacts[idx].mainStat
                \notin Range(characterGoals[charName].artifacts[idx].desiredSubstats)

\* ensureGoal, the level edits, setArtifactLevel, setMainStat,
\* setTargetSubstatCount and setTalentLevel give, applied twice to the stored
\* goal with the same arguments, what they give applied once
AssignmentsIdempotent ==
    /\ \A name \in getAllCharacterNames :
            ensureGoal(ensureGoal(characterGoals, name), name)
                = ensureGoal(characterGoals, name)
    /\ HasCurrentGoal =>
        LET goal == currentGoal
        IN  /\ \A val \in TypedLevels :
                    LET once  == onCurrentInput(goal.currentLevel, goal.targetLevel,
                                                val, 1, 89, TARGET_LEVEL_OPTIONS)
                        twice == onCurrentInput(once.currentLevel, once.targetLevel,
                                                val, 1, 89, TARGET_LEVEL_OPTIONS)
                    IN  twice = once
            /\ \A idx \in 1..Len(goal.artifacts) :
                    /\ \A field \in {"currentLevel", "targetLevel"} :
                            \A val \in Range(ARTIFACT_LEVEL_OPTIONS) :
                                setArtifactLevel(setArtifactLevel(goal, idx, field, val),
                                                 idx, field, val)
                                    = setArtifactLevel(goal, idx, field, val)
                    /\ \A val \in Range(MAIN_STATS[goal.artifacts[idx].slot]) \cup {""} :
                            setMainStat(setMainStat(goal, idx, val), idx, val)
                                = setMainStat(goal, idx, val)
                    /\ \A val \in 1..Len(goal.artifacts[idx].desiredSubstats) :
                            setTargetSubstatCount(setTargetSubstatCount(goal, idx, val),
                                                  idx, val)
                                = setTargetSubstatCount(goal, idx, val)
            /\ \A key \in DOMAIN goal.talents :
                    \A field \in {"currentLevel", "targetLevel"} :
                        \A val \in Range(TALENT_LEVELS) :
                            setTalentLevel(setTalentLevel(goal, key, field, val),
                                           key, field, val)
                                = setTalentLevel(goal, key, field, val)

\* C22: every exposed mutation operation is idempotent given the same inputs:
\* ensure(id), setLevel, setArtifactField (level, mainStat, substat toggle,
\* target substat count) and setTalentLevel, applied twice in a row with the
\* same arguments to the stored goal, leave it as one application does.
C22_MutationsIdempotent ==
    /\ AssignmentsIdempotent
    /\ HasCurrentGoal =>
            \A idx \in 1..Len(currentGoal.artifacts) :
                \A stat \in availableSubstats(currentGoal.artifacts[idx]) :
                    toggleSubstat(toggleSubstat(currentGoal, idx, stat), idx, stat)
                        = toggleSubstat(currentGoal, idx, stat)

\* the step ran toggleOwnership: a card click in ownership mode
RosterStep ==
    steps' = steps + 1 /\ lastOp'.op = "handleCardClick" /\ ownershipMode

\* the step selected the character of every record it created
SelectionCreatedTheRecords ==
    /\ lastOp'.op = "handleCardClick"
    /\ ~ownershipMode
    /\ DOMAIN characterGoals' \ DOMAIN characterGoals = {lastOp'.name}
    /\ selectedCharacter' = lastOp'.name
    /\ characterGoals'[lastOp'.name] = createDefaultGoal

\* the step edited the selected character's goal, creating it
EditCreatedTheRecords ==
    /\ lastOp'.op \notin {"handleCardClick", "toggle", "exportData", "importData"}
    /\ DOMAIN characterGoals' \ DOMAIN characterGoals = {selectedCharacter}

\* C26 as stated: goal records are created lazily and never purged by roster
\* changes: toggleOwnership(name) leaves characterGoals unchanged both when
\* it adds and when it removes name, and a record for a character is first
\* created only by selecting it or editing its goal.
C26_CreatedOnlyBySelectingOrEditing ==
    [][/\ RosterStep => characterGoals' = characterGoals
       /\ ~(DOMAIN characterGoals' \subseteq DOMAIN characterGoals) =>
            (SelectionCreatedTheRecords \/ EditCreatedTheRecords)
      ]_vars

\* C26 amended: toggleOwnership(name) leaves characterGoals unchanged both
\* when it adds and when it removes name, and a record for a character is
\* first created only by selecting it, by editing its goal, or by an accepted
\* import whose characterGoals carries it (the import replaces the mapping).
C26_GoalsLazyAndNeverPurged ==
    [][/\ RosterStep => characterGoals' = characterGoals
       /\ ~(DOMAIN characterGoals' \subseteq DOMAIN characterGoals) =>
            \/ SelectionCreatedTheRecords
            \/ EditCreatedTheRecords
            \/ /\ lastOp'.op = "importData"
               /\ lastOp'.accepted
               /\ characterGoals' = FromJson(Get(lastOp'.text, "characterGoals"))
      ]_vars

\* C26 witness: Amber, who has a goal record, was removed from the roster by a
\* card click in ownership mode, and her record is still in the store
C26_Witness ==
    /\ lastOp.op = "handleCardClick"
    /\ lastOp.name = "Amber"
    /\ ownershipMode
    /\ steps = 2
    /\ IndexOf(ownedCharacters, "Amber") = 0
    /\ "Amber" \in DOMAIN characterGoals

\* C29: whenever selectedCharacter is not null, characterGoals contains a
\* goal record for it, in every state reachable by selectCharacter calls,
\* ownership toggles, goal edits and accepted imports.
C29_SelectedHasGoalRecord ==
    selectedCharacter # Null => selectedCharacter \in DOMAIN characterGoals

\* the handlers other than the import keep a goal record for the selected
\* character
OnlyImportsSelectWithoutGoal ==
    [][(C29_SelectedHasGoalRecord /\ lastOp'.op # "importData")
            => C29_SelectedHasGoalRecord']_vars

(***************************************************************************)
(* Properties of the store while localStorage may be full (SpecQuota).     *)
(***************************************************************************)
\* C17: a failing persistence write is non-fatal and does not roll back:
\* whether or not the write that follows fails, a click on a card in
\* selection mode leaves that character selected with a goal, a toggle flips
\* the mode and a typed level is stored (later mutations still apply); and a
\* mutation whose write succeeds leaves the persisted snapshot equal to the
\* then-current store, mutations whose write failed included.
C17_FailedWriteDoesNotRollBack ==
    [][steps' = steps + 1 =>
        /\ (lastOp'.op = "handleCardClick" /\ ~ownershipMode) =>
                /\ selectedCharacter' = lastOp'.name
                /\ lastOp'.name \in DOMAIN characterGoals'
        /\ lastOp'.op = "toggle" => ownershipMode' = ~ownershipMode
        /\ lastOp'.op = "characterCurrentInput" =>
                characterGoals'[selectedCharacter].currentLevel \in {20, 37, 89}
        /\ (StoreFields' # StoreFields /\ ~quotaExceeded) => Persisted'
      ]_vars

\* C17 witness: the store is ahead of the persisted snapshot: a character
\* was selected and then a level typed while localStorage was full, both are
\* in the store, and the snapshot still has no selection
C17_Witness ==
    /\ quotaExceeded
    /\ lastOp.op = "characterCurrentInput"
    /\ HasCurrentGoal
    /\ currentGoal.currentLevel = 37
    /\ Get(storage, "selectedCharacter") = JNull
    /\ ~Persisted

(***************************************************************************)
(* Properties of the import validator (SpecImport).                        *)
(***************************************************************************)
\* the store is as InitImport constructed it
ImportLeftStoreUnchanged ==
    /\ ownedCharacters = <<"Amber">>
    /\ characterGoals = ("Amber" :> createDefaultGoal)
    /\ selectedCharacter = "Amber"

\* the goals of the drawn document, by character
CallGoals ==
    LET goals == Get(call.text, "characterGoals")
    IN  IF goals.type = "object" THEN goals.fields ELSE EmptyMap

\* the characters whose goal in the drawn document has an artifacts array of length 4
GoalsWithFourArtifacts ==
    {charName \in DOMAIN CallGoals :
        LET artifacts == Get(CallGoals[charName], "artifacts")
        IN  IsArray(artifacts) /\ Len(artifacts.items) = 4}

\* the slots no entry of the artifacts array of the character's goal has
MissingSlots(charName) ==
    LET items == Get(CallGoals[charName], "artifacts").items
    IN  {slot \in Range(VALID_SLOTS) :
            \A i \in 1..Len(items) : Get(items[i], "slot") # JStr(slot)}

\* C12: an import document in which some character's goal has an artifacts
\* array of length 4 is rejected, the store is unchanged, and the reported
\* error identifies both the character and the missing slot.
C12_FourArtifactsRejectedNamingSlot ==
    (call.fn = "import" /\ ~validateImportDataThrows(call.text)) =>
        \A charName \in GoalsWithFourArtifacts :
            /\ ret.fn = "importData" => (~ret.accepted /\ ImportLeftStoreUnchanged)
            /\ ret.fn = "validateImportData" =>
                \E i \in 1..Len(ret.errors) :
                    /\ ret.errors[i].who = charName
                    /\ ret.errors[i].at \in MissingSlots(charName)

\* the talents object lacks one of the three keys, or holds a talent with a
\* level that is a number outside [1,10]
TalentsDefective(talents) ==
    /\ talents.type = "object"
    /\ \E key \in TalentKeys :
        \/ key \notin DOMAIN talents.fields
        \/ \E field \in {"currentLevel", "targetLevel"} :
            LET level == Get(talents.fields[key], field)
            IN  level.type = "number" /\ (level.num < 1 \/ level.num > 10)

\* C13: the validator accepts a characterGoals value only if its talents has
\* the three keys normalAttack, skill and burst, each with currentLevel and
\* targetLevel in [1,10]: a goal whose talents object lacks one of the keys,
\* or has a talent level outside [1,10], produces a validation error (and the
\* import is refused).
C13_TalentsKeysAndLevelsValidated ==
    (call.fn = "import" /\ ~validateImportDataThrows(call.text)
        /\ \E charName \in DOMAIN CallGoals :
            TalentsDefective(Get(CallGoals[charName], "talents"))) =>
        /\ ret.fn = "validateImportData" => Len(ret.errors) > 0
        /\ ret.fn = "importData" => ~ret.accepted

\* the defects of the drawn document, each as the error that reports it: an
\* ownedCharacters that is no array, its entries that are no known name, a
\* selectedCharacter that is no known name, and in the goal of each known
\* character an invalid level, an artifacts value that is no array of 5, an
\* entry of it in the wrong slot, a talents value that is no object and a
\* talent with an out-of-range level
OwnedDefects ==
    LET owned == Get(call.text, "ownedCharacters")
    IN  IF owned = Undefined THEN {}
        ELSE IF owned.type # "array"
            THEN {Error("ownedCharacters must be an array", "", "")}
        ELSE {Error("ownedCharacters contains non-string value", "", "") :
                i \in {k \in 1..Len(owned.items) : owned.items[k].type # "string"}}
             \cup {Error("Unknown character in ownedCharacters", owned.items[i].str, "") :
                i \in {k \in 1..Len(owned.items) :
                        /\ owned.items[k].type = "string"
                        /\ owned.items[k].str \notin getAllCharacterNames}}

SelectedDefects ==
    LET selected == Get(call.text, "selectedCharacter")
    IN  IF selected \in {Undefined, JNull, JStr("Amber"), JStr("Bennett")} THEN {}
        ELSE {Error("Invalid selectedCharacter", "", "")}

LevelDefects(charName, goal) ==
    {Error("invalid currentLevel", charName, "") : x \in
        {l \in {Get(goal, "currentLevel")} : l.type # "number" \/ l.num \notin {1} \cup VALID_CHARACTER_LEVELS}}
    \cup {Error("invalid targetLevel", charName, "") : x \in
        {l \in {Get(goal, "targetLevel")} : l.type # "number" \/ l.num \notin {1} \cup VALID_CHARACTER_LEVELS}}

ArtifactDefects(charName, goal) ==
    LET artifacts == Get(goal, "artifacts")
    IN  IF artifacts = Undefined THEN {}
        ELSE IF artifacts.type # "array" \/ Len(artifacts.items) # 5
            THEN {Error("artifacts must be an array of 5", charName, "")}
        ELSE {Error("artifact has wrong slot", charName, VALID_SLOTS[i]) :
                i \in {k \in 1..5 : Get(artifacts.items[k], "slot") # JStr(VALID_SLOTS[k])}}

TalentDefects(charName, goal) ==
    LET talents == Get(goal, "talents")
    IN  IF talents = Undefined THEN {}
        ELSE IF talents.type \notin {"object", "array"}
            THEN {Error("talents must be an object", charName, "")}
        ELSE {Error("talent has out-of-range levels", charName, key) :
                key \in {k \in TalentKeys :
                    \E field \in {"currentLevel", "targetLevel"} :
                        LET level == Get(Get(talents, k), field)
                        IN  level.type = "number" /\ (level.num < 1 \/ level.num > 10)}}

GoalDefects ==
    LET goals == Get(call.text, "characterGoals")
    IN  IF goals = Undefined THEN {}
        ELSE IF goals.type # "object"
            THEN {Error("characterGoals must be an object", "", "")}
        ELSE UNION {
            IF charName \notin getAllCharacterNames
                THEN {Error("Unknown character in goals", charName, "")}
            ELSE IF goals.fields[charName].type \notin {"object", "array"}
                THEN {Error("Goal is not an object", charName, "")}
            ELSE LevelDefects(charName, goals.fields[charName])
                 \cup ArtifactDefects(charName, goals.fields[charName])
                 \cup TalentDefects(charName, goals.fields[charName])
            : charName \in DOMAIN goals.fields}

Defects == OwnedDefects \cup SelectedDefects \cup GoalDefects

\* C14: validation is exhaustive, not fail-fast: for a plain-object document
\* with several independent defects the returned error list holds an error
\* for each of them, and validation never throws.
C14_ValidationExhaustiveNeverThrows ==
    (call.fn = "import" /\ ret.fn = "validateImportData") =>
        /\ ~ret.throws
        /\ \A defect \in Defects : \E i \in 1..Len(ret.errors) : ret.errors[i] = defect

\* the exhaustive half of C14 on the documents validation does not throw on
ErrorForEachDefect ==
    (call.fn = "import" /\ ret.fn = "validateImportData" /\ ~ret.throws) =>
        /\ \A defect \in Defects : \E i \in 1..Len(ret.errors) : ret.errors[i] = defect
        /\ \A i \in 1..Len(ret.errors) : ret.errors[i] \in Defects

\* a document with four independent defects, each reported
FourDefectsReported ==
    /\ ret.fn = "validateImportData" /\ ~ret.throws
    /\ Cardinality(Defects) >= 4
    /\ OwnedDefects # {} /\ SelectedDefects # {}
    /\ \E a, b \in Defects : a.who = "Amber" /\ b.who = "Bennett"
    /\ Len(ret.errors) >= 4

(***************************************************************************)
(* Properties of the cost functions (SpecCost).                            *)
(***************************************************************************)
ListResults == {"characterRequiredMaterials", "weaponRequiredMaterials",
                "getTalentMaterials"}
LevelUpResults == {"getCharacterLevelUpCosts", "getWeaponLevelUpCosts"}

\* the levels a goal record can hold for the dimension of the applied function:
\* 0..20 for an artifact, 1..90 for a character, a weapon or a talent
StorableLevels ==
    IF ret.fn \in {"getArtifactLevelCost", "getArtifactXpCost", "slotCost"}
    THEN {l \in CostLevels : l <= 20}
    ELSE {l \in CostLevels : 1 <= l /\ l <= 90}

StorableCall == call.current \in StorableLevels /\ call.target \in StorableLevels

CumulativeTables ==
    {CHARACTER_CUMULATIVE_EXP, WEAPON_3STAR_CUMULATIVE_EXP, WEAPON_4STAR_CUMULATIVE_EXP,
     WEAPON_5STAR_CUMULATIVE_EXP, ARTIFACT_5STAR_CUMULATIVE_MORA,
     ARTIFACT_5STAR_CUMULATIVE_XP}

NonDecreasing(table) ==
    \A j, k \in DOMAIN table : j <= k => table[j] <= table[k]

\* the cost of the applied function for another pair of levels
CostOf(fn, current, target) ==
    CASE fn = "getCharacterLevelUpCosts" -> getCharacterLevelUpCosts(current, target).exp
      [] fn = "getWeaponLevelUpCosts" ->
            getWeaponLevelUpCosts(current, target, weaponRarity(call.weapon)).exp
      [] fn = "getArtifactLevelCost" -> getArtifactLevelCost(current, target)
      [] fn = "getArtifactXpCost" -> getArtifactXpCost(current, target)

RangeCostResults == {"getCharacterLevelUpCosts", "getWeaponLevelUpCosts",
                     "getArtifactLevelCost", "getArtifactXpCost"}

\* C9: every cumulative table is non-decreasing in its level key, and the
\* range cost is monotone: for a fixed current it does not decrease as the
\* target increases, for a fixed target it does not increase as the current
\* increases.
C9_TablesAndRangeCostMonotone ==
    /\ \A table \in CumulativeTables : NonDecreasing(table)
    /\ (call.fn = "cost" /\ ret.fn \in RangeCostResults /\ StorableCall) =>
        LET cost == CostOf(ret.fn, call.current, call.target)
        IN  /\ \A t \in StorableLevels :
                t >= call.target => CostOf(ret.fn, call.current, t) >= cost
            /\ \A c \in StorableLevels :
                c >= call.current => CostOf(ret.fn, c, call.target) <= cost

\* n is the least integer >= num / den
LeastIntegerAtLeast(n, num, den) == n * den >= num /\ (n - 1) * den < num

CharacterMilestones == {1, 20, 40, 50, 60, 70, 80, 90}

\* the weapon table the claim names for a rarity
TableOfRarity(rarity) ==
    CASE rarity = 3 -> WEAPON_3STAR_CUMULATIVE_EXP
      [] rarity = 4 -> WEAPON_4STAR_CUMULATIVE_EXP
      [] OTHER -> WEAPON_5STAR_CUMULATIVE_EXP

\* the rarity the drawn weapon has in the game data (5 for no weapon)
CallRarity ==
    IF call.weapon \in DOMAIN genshindb_weapons
    THEN genshindb_weapons[call.weapon].rarity ELSE 5

C11_ReferenceValues ==
    /\ (call.fn = "cost" /\ call.current = 1 /\ call.target = 20) =>
        /\ ret.fn = "getCharacterLevelUpCosts" => (ret.mora = 24035 /\ ret.count = 7)
        /\ (ret.fn = "getWeaponLevelUpCosts" /\ CallRarity = 5) =>
                (ret.mora = 2020 /\ ret.count = 41)
    /\ (call.fn = "cost" /\ call.current = 0 /\ call.target = 20) =>
        /\ ret.fn = "getArtifactLevelCost" => ret.mora = 88800
        /\ ret.fn = "getArtifactXpCost" => ret.exp = 871500
        /\ ret.fn = "slotCost" => (ret.mora = 88800 /\ ret.exp = 871500)

\* C11 witness: one artifact slot costed from +0 to +20 by the Artifacts tab
C11_Witness ==
    /\ ret.fn = "slotCost"
    /\ call.current = 0 /\ call.target = 20
    /\ ret.mora = 88800 /\ ret.exp = 871500

(***************************************************************************)
(* Properties of the cost merger (SpecMerge).                              *)
(***************************************************************************)
NamesOf(list) == {list[i].name : i \in 1..Len(list)}

\* sum of the counts of the items of list called name
RECURSIVE TotalCount(_, _)
TotalCount(list, name) ==
    IF list = <<>> THEN 0
    ELSE (IF Head(list).name = name THEN Head(list).count ELSE 0)
         + TotalCount(Tail(list), name)

\* the name-to-count mapping of a list
Totals(list) == [n \in NamesOf(list) |-> TotalCount(list, n)]

FirstAppearance(list, name) ==
    CHOOSE i \in 1..Len(list) :
        list[i].name = name /\ \A j \in 1..(i - 1) : list[j].name # name

\* C7: merging cost-item lists yields a list in which each name occurs exactly
\* once, its count is the sum of the counts of all input items with that name,
\* and names appear in the order of their first appearance in the input;
\* merging [{Mora,5},{Mora,10},{Book,2}] gives [{Mora,15},{Book,2}].
C7_MergeSumsInFirstAppearanceOrder ==
    ret.fn = "fold" =>
        LET input  == call.a \o call.b \o call.c
            output == ret.list
        IN  /\ \A i, j \in 1..Len(output) : output[i].name = output[j].name => i = j
            /\ NamesOf(output) = NamesOf(input)
            /\ \A i \in 1..Len(output) :
                output[i].count = TotalCount(input, output[i].name)
            /\ \A i, j \in 1..Len(output) :
                i < j => FirstAppearance(input, output[i].name)
                         < FirstAppearance(input, output[j].name)
            /\ input = <<Item("Mora", 5), Item("Mora", 10), Item("Book", 2)>>
                => output = <<Item("Mora", 15), Item("Book", 2)>>

\* C7 witness: the example of the claim, folded from two lists
C7_Witness ==
    /\ ret.fn = "fold"
    /\ call.a = <<Item("Mora", 5), Item("Mora", 10)>>
    /\ call.b = <<Item("Book", 2)>>
    /\ call.c = <<>>
    /\ ret.list = <<Item("Mora", 15), Item("Book", 2)>>

\* C8: merge is commutative and associative on the summed totals: the
\* name-to-count mapping of merge(A,B) equals that of merge(B,A), and that of
\* merge(merge(A,B),C) equals that of merge(A,merge(B,C)).
C8_MergeCommutativeAssociative ==
    ret.fn = "pairs" =>
        /\ Totals(ret.ab) = Totals(ret.ba)
        /\ Totals(ret.ab_c) = Totals(ret.a_bc)

\* C8 witness: lists that share a name and merge into different display
\* orders, with a third list that adds to a shared name
C8_Witness ==
    /\ ret.fn = "pairs"
    /\ ret.ab # ret.ba
    /\ NamesOf(call.a) \cap NamesOf(call.b) # {}
    /\ NamesOf(call.b) \cap NamesOf(call.c) # {}
    /\ Len(ret.ab_c) = 2

(***************************************************************************)
(* Properties of the roster total (SpecTotals).                            *)
(***************************************************************************)
RECURSIVE Flatten(_)
Flatten(lists) == IF lists = <<>> THEN <<>> ELSE Head(lists) \o Flatten(Tail(lists))

\* every cost item of every dimension of every goal of the store, in one list
RECURSIVE AllDimensionItems(_, _)
AllDimensionItems(goals, names) ==
    IF names = {} THEN <<>>
    ELSE LET charName == CHOOSE n \in names : TRUE
         IN  Flatten(DimensionCosts(charName, goals[charName]))
             \o AllDimensionItems(goals, names \ {charName})

C20_SubstatCap ==
    /\ [](\A charName \in DOMAIN characterGoals :
            \A idx \in 1..Len(characterGoals[charName].artifacts) :
                LET artifact == characterGoals[charName].artifacts[idx]
                IN  /\ Len(artifact.desiredSubstats) <= 4
                    /\ Cardinality(Range(artifact.desiredSubstats))
                            = Len(artifact.desiredSubstats)
                    /\ artifact.targetSubstatCount <= Len(artifact.desiredSubstats))
    /\ [][lastOp'.op = "toggleSubstat" =>
            \A idx \in 1..Len(currentGoal.artifacts) :
                LET old == characterGoals[selectedCharacter].artifacts[idx]
                    new == characterGoals'[selectedCharacter].artifacts[idx]
                IN  /\ Len(old.desiredSubstats) = 4 =>
                            Range(new.desiredSubstats) \subseteq Range(old.desiredSubstats)
                    /\ Len(new.desiredSubstats) < Len(old.desiredSubstats) =>
                            new.targetSubstatCount
                                = Min(old.targetSubstatCount, Len(new.desiredSubstats))
         ]_vars

\* C20 witness: the ATK% chip of the Sands was clicked while four other
\* substats were desired, and the four are still the desired ones
C20_Witness ==
    /\ lastOp.op = "toggleSubstat"
    /\ steps = 1
    /\ HasCurrentGoal
    /\ currentGoal.artifacts[1].desiredSubstats = <<>>
    /\ currentGoal.artifacts[3].desiredSubstats = <<"HP", "ATK", "DEF", "HP%">>
    /\ currentGoal.artifacts[3].targetSubstatCount = 4

(***************************************************************************)
(* Properties of the asynchronous import (SpecAsync).                      *)
(***************************************************************************)
\* the store fields are those of the document where it has them
ReplacedBy(document, owned, goals, selected) ==
    /\ IsArray(Get(document, "ownedCharacters")) =>
            owned = FromJson(Get(document, "ownedCharacters"))
    /\ Truthy(Get(document, "characterGoals")) =>
            goals = FromJson(Get(document, "characterGoals"))
    /\ Get(document, "selectedCharacter") # Undefined =>
            selected = FromJson(Get(document, "selectedCharacter"))

PhaseOfMilestone(level) ==
    CASE level \in {1, 20} -> 0
      [] level = 40 -> 1
      [] level = 50 -> 2
      [] level = 60 -> 3
      [] level = 70 -> 4
      [] level = 80 -> 5
      [] level = 90 -> 6

\* the items of the phases from..to of a cost table, phase after phase
RECURSIVE PhaseItems(_, _, _)
PhaseItems(costs, from, to) ==
    IF from > to THEN <<>>
    ELSE (IF from \in DOMAIN costs THEN costs[from] ELSE <<>>)
         \o PhaseItems(costs, from + 1, to)

\* the applied ascension function paid exactly the phases
\* phase(current)+1 .. phase(target) of the drawn character or weapon
PaysThePhaseRange ==
    LET from == PhaseOfMilestone(call.current) + 1
        to   == PhaseOfMilestone(call.target)
    IN  /\ (ret.fn = "getCharacterAscensionCosts"
                /\ call.charName \in DOMAIN genshindb_characters) =>
                Totals(ret.list)
                    = Totals(PhaseItems(genshindb_characters[call.charName].costs, from, to))
        /\ (ret.fn = "getWeaponAscensionCosts"
                /\ call.weapon \in DOMAIN genshindb_weapons) =>
                Totals(ret.list)
                    = Totals(PhaseItems(genshindb_weapons[call.weapon].costs, from, to))

\* C24 as stated: levels 1 and 20 map to phase 0 and 40, 50, 60, 70, 80, 90 to
\* phases 1..6; the phases paid for (current, target) are the inclusive range
\* [phase(current)+1, phase(target)], and for milestone levels this range is
\* empty exactly when current >= target.
C24_PhaseRangeEmptyIffNotBelowTarget ==
    (call.fn = "cost" /\ call.current \in CharacterMilestones
                      /\ call.target \in CharacterMilestones) =>
        /\ \A level \in CharacterMilestones :
                LEVEL_TO_PHASE[level] = PhaseOfMilestone(level)
        /\ PaysThePhaseRange
        /\ ((LEVEL_TO_PHASE[call.current] + 1)..LEVEL_TO_PHASE[call.target] = {})
                <=> call.current >= call.target

\* C24 amended: the same mapping and range; for milestone levels the range is
\* empty exactly when phase(current) >= phase(target), that is when
\* current >= target or when current = 1 and target = 20 (both in phase 0).
C24_PhaseRange ==
    (call.fn = "cost" /\ call.current \in CharacterMilestones
                      /\ call.target \in CharacterMilestones) =>
        /\ \A level \in CharacterMilestones :
                LEVEL_TO_PHASE[level] = PhaseOfMilestone(level)
        /\ PaysThePhaseRange
        /\ ((LEVEL_TO_PHASE[call.current] + 1)..LEVEL_TO_PHASE[call.target] = {})
                <=> (\/ call.current >= call.target
                     \/ (call.current = 1 /\ call.target = 20))
        /\ ret.fn \in {"getCharacterAscensionCosts", "getWeaponAscensionCosts"} =>
                (call.current = 1 /\ call.target = 20 => ret.list = <<>>)

\* C24 witness: Amber's ascension costs from 20 to 50 are those of phases 1
\* and 2
C24_Witness ==
    /\ ret.fn = "getCharacterAscensionCosts"
    /\ call.charName = "Amber"
    /\ call.current = 20
    /\ call.target = 50
    /\ TotalCount(ret.list, "Agnidus Agate") = 3
    /\ TotalCount(ret.list, "Mora") = 60000

(***************************************************************************)
(* Properties of the per-tab material lists (SpecCost).                    *)
(***************************************************************************)
\* list holds one Mora entry at most, of levelMora plus the Mora of the
\* ascension costs, every other ascension material with its count, the
\* EXP item, and no name twice
CollapsesMora(list, levelMora, expItemName, ascensionCosts) ==
    /\ Cardinality({i \in 1..Len(list) : list[i].name = "Mora"}) <= 1
    /\ TotalCount(list, "Mora") = levelMora + TotalCount(ascensionCosts, "Mora")
    /\ \A name \in NamesOf(ascensionCosts) \ {"Mora"} :
            TotalCount(list, name) = TotalCount(ascensionCosts, name)
    /\ NamesOf(list) \subseteq NamesOf(ascensionCosts) \cup {"Mora", expItemName}
    /\ \A i, j \in 1..Len(list) : list[i].name = list[j].name => i = j

\* C25: currency collapses into one entry: the material list derived for the
\* character dimension and for the weapon dimension (derived when current <
\* target) contains at most one item named Mora, whose count is the level-up
\* Mora plus the sum of all Mora items of the ascension costs; every other
\* ascension material appears with its ascension count unchanged, and no
\* name occurs twice in the list.
C25_MoraCollapsesIntoOneEntry ==
    (call.fn = "cost" /\ call.current < call.target) =>
        /\ ret.fn = "characterRequiredMaterials" =>
                CollapsesMora(ret.list,
                    getCharacterLevelUpCosts(call.current, call.target).mora,
                    "Hero's Wit",
                    getCharacterAscensionCosts(call.charName, call.current, call.target))
        /\ (ret.fn = "weaponRequiredMaterials" /\ call.weapon # Null) =>
                CollapsesMora(ret.list,
                    getWeaponLevelUpCosts(call.current, call.target,
                                          weaponRarity(call.weapon)).mora,
                    "Mystic Enhancement Ore",
                    getWeaponAscensionCosts(call.weapon, call.current, call.target))

\* C25 witness: Amber from 20 to 50: one Mora entry above the 60000 of the
\* two ascensions, then Hero's Wit and the two ascension materials
C25_Witness ==
    /\ ret.fn = "characterRequiredMaterials"
    /\ call.charName = "Amber"
    /\ call.current = 20
    /\ call.target = 50
    /\ Len(ret.list) = 4
    /\ ret.list[1].name = "Mora"
    /\ ret.list[1].count > 60000
    /\ TotalCount(ret.list, "Agnidus Agate") = 3

(***************************************************************************)
(* Properties of the lookup misses (SpecCost).                             *)
(***************************************************************************)
\* the applied function returned a zero or empty contribution
ZeroContribution ==
    /\ ret.exp = 0
    /\ ret.mora = 0
    /\ ret.count = 0
    /\ ret.list = <<>>

\* a miss of the target level, of the identifier, or of both levels gives a
\* zero or empty contribution
TargetOrIdentifierMissContributesZero ==
    (call.fn = "cost" /\ ret.fn # "none") =>
        /\ (ret.fn = "getCharacterLevelUpCosts"
                /\ call.target \notin DOMAIN CHARACTER_CUMULATIVE_EXP) => ZeroContribution
        /\ (ret.fn = "getWeaponLevelUpCosts"
                /\ call.target \notin DOMAIN TableOfRarity(CallRarity)) => ZeroContribution
        /\ (ret.fn \in {"getCharacterAscensionCosts", "getWeaponAscensionCosts"}
                /\ call.target \notin DOMAIN LEVEL_TO_PHASE) => ZeroContribution
        /\ (ret.fn = "getCharacterAscensionCosts"
                /\ call.charName \notin DOMAIN genshindb_characters) => ZeroContribution
        /\ (ret.fn = "getWeaponAscensionCosts"
                /\ call.weapon \notin DOMAIN genshindb_weapons) => ZeroContribution

\* C27: a lookup miss contributes zero and never fails: for a level range in
\* which the current or the target level has no entry in the cost table or
\* the phase map (an off-milestone level), and for an identifier the data
\* provider has no entry for, the cost function returns a zero or empty
\* contribution for that range.
C27_LookupMissContributesZero ==
    /\ TargetOrIdentifierMissContributesZero
    /\ (call.fn = "cost" /\ ret.fn # "none") =>
        /\ (ret.fn = "getCharacterLevelUpCosts"
                /\ call.current \notin DOMAIN CHARACTER_CUMULATIVE_EXP) => ZeroContribution
        /\ (ret.fn = "getWeaponLevelUpCosts"
                /\ call.current \notin DOMAIN TableOfRarity(CallRarity)) => ZeroContribution
        /\ (ret.fn \in {"getCharacterAscensionCosts", "getWeaponAscensionCosts"}
                /\ call.current \notin DOMAIN LEVEL_TO_PHASE) => ZeroContribution

(***************************************************************************)
(* Properties of the start of the application (SpecStartup).               *)
(***************************************************************************)
\* the roster fields of a saved text, Undefined for each if nothing is saved
SavedRoster(text) ==
    <<Get(text, "ownedCharacters"), Get(text, "characterGoals"),
      Get(text, "selectedCharacter")>>

SplitNeverLowers(whole, first, second) ==
    /\ whole.exp = first.exp + second.exp
    /\ whole.mora <= first.mora + second.mora
    /\ first.mora + second.mora - whole.mora <= 1
    /\ whole.count <= first.count + second.count
    /\ first.count + second.count - whole.count <= 1

\* C30: splitting a level range never lowers the cost: for all milestones
\* a <= b <= c and every character or weapon table, the experience for a->c
\* is the experience for a->b plus that for b->c, while the Mora and the item
\* count (Hero's Wit / Mystic Enhancement Ore) for a->c are less than or
\* equal to the sum of the values for a->b and b->c, and differ from that
\* sum by at most 1 each.
C30_SplittingNeverLowersCost ==
    (call.fn = "cost" /\ call.current \in CharacterMilestones
                      /\ call.target \in CharacterMilestones
                      /\ call.current <= call.target) =>
        \A b \in {m \in CharacterMilestones : call.current <= m /\ m <= call.target} :
            /\ ret.fn = "getCharacterLevelUpCosts" =>
                    LET first  == getCharacterLevelUpCosts(call.current, b)
                        second == getCharacterLevelUpCosts(b, call.target)
                    IN  SplitNeverLowers(ret,
                            [exp |-> first.exp, mora |-> first.mora,
                             count |-> first.heroWits],
                            [exp |-> second.exp, mora |-> second.mora,
                             count |-> second.heroWits])
            /\ ret.fn = "getWeaponLevelUpCosts" =>
                    LET first  == getWeaponLevelUpCosts(call.current, b, CallRarity)
                        second == getWeaponLevelUpCosts(b, call.target, CallRarity)
                    IN  SplitNeverLowers(ret,
                            [exp |-> first.exp, mora |-> first.mora,
                             count |-> first.mysticOres],
                            [exp |-> second.exp, mora |-> second.mora,
                             count |-> second.mysticOres])

\* C30 witness: a character from 1 to 40 takes 29 Hero's Wit, while 1 to 20
\* and 20 to 40 take 7 and 23
C30_Witness ==
    /\ ret.fn = "getCharacterLevelUpCosts"
    /\ call.current = 1
    /\ call.target = 40
    /\ ret.count = 29
    /\ getCharacterLevelUpCosts(1, 20).heroWits = 7
    /\ getCharacterLevelUpCosts(20, 40).heroWits = 23

====
